---- MODULE Spec2Model ----
(***************************************************************************)
(* Model of idempokit: the IdempotencyEngine (engine.ts) driving a store   *)
(* that implements the IdempotencyStore interface (types.ts).  Two stores  *)
(* of the repository are modelled from their code, MemoryStore             *)
(* (memory-store.ts) and RedisAdapter with its Lua scripts (lua.ts), plus  *)
(* third-party stores that only have to satisfy the interface.             *)
(*                                                                         *)
(* Time is abstracted: a timer (lock TTL, retention, handler timeout) may  *)
(* fire at any moment after it has been armed.                             *)
(***************************************************************************)
EXTENDS Naturals, Sequences, FiniteSets

\* ------------------------------------------------------------- bounds
MaxCalls == 2
MaxFingerprints == 2

Calls == 1..MaxCalls

\* ------------------------------------------------- program constants
MinLockOrTimeoutMs == 50
MaxLockOrTimeoutMs == 300000
MinRetentionMs == 86400000
DefaultHandlerTimeoutMs == 30000

\* ------------------------------------------------------------ numbers
\* A JavaScript number as far as the engine's comparisons can tell: an
\* integer, or NaN, for which every `<` and `>` is false.
Num(n) == [nan |-> FALSE, v |-> n]
NaN == [nan |-> TRUE, v |-> 0]
Lt(a, b) == ~a.nan /\ ~b.nan /\ a.v < b.v
Gt(a, b) == Lt(b, a)

\* ------------------------------------------------------------ inputs
\* Keys are sequences of characters, so that trim() and the prefix are computed.
KeyPrefix == <<"p">>
RawKeys == { <<>>, <<" ">>, <<"a">>, <<" ", "a", " ">>, <<"b">> }
Fingerprints == {"F1", "F2"}
NoFp == "none"
\* options.handlerTimeout and options.retentionOverride; <<>> is "not given"
HandlerTimeouts == { <<>>, <<Num(49)>>, <<Num(50)>>, <<Num(300001)>>, <<NaN>> }
RetentionOverrides == { <<>>, <<Num(1000)>>, <<Num(86400000)>> }
\* the key argument: a string, or a value of another type
StringKey(s) == [type |-> "string", chars |-> s]
NotAString == [type |-> "number", chars |-> <<>>]
KeyArgs == { StringKey(s) : s \in RawKeys } \cup { NotAString }
\* the inputs that tell the paths of the protocol apart: a key that is
\* rejected and two that are not, a timeout and a retention that are rejected
\* and the defaults
ProtocolKeys == { StringKey(<<>>), StringKey(<<"a">>), StringKey(<<"b">>) }
ProtocolTimeouts == { <<>>, <<Num(49)>> }
ProtocolRetentions == { <<>>, <<Num(1000)>> }
\* options.onAudit: not given, a function that resolves, a function that throws
NoOverride == "none"
AuditOverrides == { NoOverride, "resolves", "throws" }
\* options.metadata: not given, or an object with these keys
NoMetadata == [given |-> FALSE, keys |-> {}]
Metadata(ks) == [given |-> TRUE, keys |-> ks]
\* the engine under test: new IdempotencyEngine(store, {lockTtl, retention, onAudit})
EngineLockTtl == 30000
EngineRetention == 86400000

\* The store handed to the engine: the repository's two, or a third-party one
\* that implements the interface with ("custom") or without ("minimal") the
\* optional releaseLock / recordAudit methods.
StoreKinds == {"memory", "redis", "custom", "minimal"}

VARIABLES
    engine,         \* the IdempotencyEngine: its options once constructed
    opts,           \* call -> arguments and validated options of the call
    commitArg,      \* call -> retentionMs the call passed to store.commitResult
    auditLog,       \* call -> events handed to store.recordAudit, in order
    storeKind,      \* which IdempotencyStore the engine was constructed with
    store,          \* full key -> key record
    retentionElapsed, \* some committed record has expired by retention
    pc,             \* call -> position of the execute() call
    key,            \* call -> fullKey
    fp,             \* call -> fingerprint argument
    checkResult,    \* call -> what store.atomicCheckAndLock answered
    outcome,        \* call -> completion of execute() (pending while in finally)
    handlerCalls,   \* call -> number of times execute() invoked its handler
    handlerResult,  \* call -> value the handler resolved with
    releaseOutcome, \* call -> how the releaseLock call of the finally block went
    sinkLog,        \* call -> audit events handed to the active sink, in order
    fingerprinted,  \* the fingerprint() calls made: argument and digest, in order
    priorResults    \* call -> the values that calls with its key and fingerprint
                    \* had returned when it was made

vars == <<fingerprinted, engine, opts, commitArg, auditLog, storeKind, store, retentionElapsed, pc, key, fp, checkResult, outcome,
          handlerCalls, handlerResult, releaseOutcome, sinkLog, priorResults>>

\* --------------------------------------------------------- key helpers
RECURSIVE TrimLeft(_)
TrimLeft(s) == IF s # <<>> /\ Head(s) = " " THEN TrimLeft(Tail(s)) ELSE s

RECURSIVE TrimRight(_)
TrimRight(s) ==
    IF s # <<>> /\ s[Len(s)] = " " THEN TrimRight(SubSeq(s, 1, Len(s) - 1)) ELSE s

Trim(s) == TrimRight(TrimLeft(s))

\* Faulty variant of the namespacing: the key is not trimmed.
FullKeyUntrimmed(k) == KeyPrefix \o k

FullKey(k) == KeyPrefix \o Trim(k)

ValidKeys == { k \in RawKeys : Len(Trim(k)) # 0 }
FullKeys == { FullKey(k) : k \in ValidKeys }
NoKey == <<>>

\* ------------------------------------------------------------- results
\* The value a handler resolves with: the object {id: c, items: ...} of call
\* c, whose items member is a non-empty array, an empty array or an empty
\* object.  NoResult: no value.
NoResult == [id |-> 0, items |-> "none"]
Result(c, items) == [id |-> c, items |-> items]
\* the result of the handlers of the tests: no empty array in it
ResultOf(c) == Result(c, "nonEmptyArray")
\* the results a handler of call c can resolve with
Results(c) == { Result(c, "nonEmptyArray"), Result(c, "emptyArray") }

\* JSON.stringify / JSON.parse (JavaScript) on these values
JsonStringify(v) ==
    [v EXCEPT !.items = CASE @ = "nonEmptyArray" -> "[1]"
                          [] @ = "emptyArray" -> "[]"
                          [] @ = "emptyObject" -> "{}"
                          [] OTHER -> @]
JsonParse(text) ==
    [text EXCEPT !.items = CASE @ = "[1]" -> "nonEmptyArray"
                             [] @ = "[]" -> "emptyArray"
                             [] @ = "{}" -> "emptyObject"
                             [] OTHER -> @]
\* cjson.decode / cjson.encode (Lua): arrays and objects both decode to
\* tables, and a table without entries encodes as {}
CjsonDecode(text) ==
    [text EXCEPT !.items = CASE @ = "[1]" -> "table{1}"
                             [] @ = "[]" -> "table{}"
                             [] @ = "{}" -> "table{}"
                             [] OTHER -> @]
CjsonEncode(data) ==
    [data EXCEPT !.items = CASE @ = "table{1}" -> "[1]"
                             [] @ = "table{}" -> "{}"
                             [] OTHER -> @]

\* --------------------------------------------------------- key records
\* px is the expiry the record was written with, in ms (PX in Redis, the
\* setTimeout delay in MemoryStore); <<>>: none
Absent ==
    [status |-> "absent", fingerprint |-> NoFp, result |-> NoResult, owner |-> 0,
     px |-> <<>>]
\* owner is the call that wrote the record and stands for the time it did:
\* lockAcquiredAt of a processing record, createdAt of a committed one
Processing(c) ==
    [status |-> "processing", fingerprint |-> NoFp, result |-> NoResult, owner |-> c,
     px |-> <<>>]
Committed(f, r, c) ==
    [status |-> "committed", fingerprint |-> f, result |-> r, owner |-> c,
     px |-> <<>>]
\* a value that cjson.decode rejects, e.g. '{"status":"proce'
Corrupted ==
    [status |-> "corrupt", fingerprint |-> NoFp, result |-> NoResult, owner |-> 0,
     px |-> <<>>]
\* the record written with an expiry of ms
Expiring(rec, ms) == [rec EXCEPT !.px = <<ms>>]

\* ------------------------------------------------------------ outcomes
\* The completion of execute(): nothing yet, a returned value, or a thrown
\* error with the two fields an IdempotencyError can carry besides its name:
\* storedFingerprint (FingerprintMismatchError) and cause
\* (IdempotencyInternalError).
NoOutcome ==
    [kind |-> "none", value |-> NoResult, storedFingerprint |-> NoFp, cause |-> "none"]
Returned(v) ==
    [kind |-> "ok", value |-> v, storedFingerprint |-> NoFp, cause |-> "none"]
Thrown(e) ==
    [kind |-> e, value |-> NoResult, storedFingerprint |-> NoFp, cause |-> "none"]
\* new FingerprintMismatchError(message, storedFingerprint)
FingerprintMismatchError(storedFingerprint) ==
    [Thrown("FingerprintMismatch") EXCEPT !.storedFingerprint = storedFingerprint]

\* `a ?? b` on an optional number
Coalesce(opt, default) == IF opt = <<>> THEN default ELSE opt[1]

\* ---------------------------------------------------------- constructor
NoEngine == [state |-> "none", lockTtl |-> NaN, retention |-> NaN, onAudit |-> "none"]
\* the constructor threw e on the options o: no engine exists
Failed(e, o) ==
    [state |-> e, lockTtl |-> o.lockTtl, retention |-> o.retention,
     onAudit |-> o.onAudit]

\* new IdempotencyEngine(store, o): the engine, or what the constructor throws
NewEngine(o) ==
    IF Lt(o.lockTtl, Num(MinLockOrTimeoutMs)) \/ Gt(o.lockTtl, Num(MaxLockOrTimeoutMs))
    THEN Failed("InvalidLockTtl", o)
    ELSE IF Lt(o.retention, Num(MinRetentionMs)) THEN Failed("InvalidRetention", o)
    ELSE IF o.onAudit \notin {"resolves", "throws"} THEN Failed("MissingOnAudit", o)
    ELSE [state |-> "constructed", lockTtl |-> o.lockTtl, retention |-> o.retention,
          onAudit |-> o.onAudit]

\* the engine of engine.test.ts
TestOptions ==
    [lockTtl |-> Num(EngineLockTtl), retention |-> Num(EngineRetention),
     onAudit |-> "resolves"]

\* The arguments of an execute() call (key, options.handlerTimeout,
\* options.retentionOverride, options.onAudit, options.metadata) and the two
\* numbers it derives from them and from the engine: retentionMs, and the
\* lockTtl it passes to the probe.  NoArgs: execute() was not entered;
\* retentionMs and lockTtl are <<>> until the validation has passed.
Args(k, ht, ro, oa, md) ==
    [key |-> k, handlerTimeout |-> ht, retentionOverride |-> ro, onAudit |-> oa,
     metadata |-> md, retentionMs |-> <<>>, lockTtl |-> <<>>]
NoArgs == Args(NotAString, <<>>, <<>>, NoOverride, NoMetadata)
\* commitResult was not called
NotCalled == <<>>

\* ------------------------------------------------- MemoryStore (mock)
\* What atomicCheckAndLock resolves with; createdAt is the call whose commit
\* wrote the record (0: no such field in the reply).
Reply(status, f, r, createdAt) ==
    [status |-> status, fingerprint |-> f, result |-> r, createdAt |-> createdAt]
\* atomicCheckAndLock rejected
Rejected == Reply("error", NoFp, NoResult, 0)

\* Faulty variant of atomicCheckAndLock: the lock is set without its timer.
MemoryCheckAndLockNoTimer(st, k, c, lockTtlMs) ==
    IF st[k].status # "absent"
    THEN IF st[k].status = "processing"
         THEN [reply |-> Reply("locked", NoFp, NoResult, 0), store |-> st]
         ELSE [reply |-> Reply("exists", st[k].fingerprint, st[k].result, st[k].owner),
               store |-> st]
    ELSE [reply |-> Reply("acquired", NoFp, NoResult, 0),
          store |-> [st EXCEPT ![k] = Processing(c)]]

MemoryAtomicCheckAndLock(st, k, c, lockTtlMs) ==
    IF st[k].status # "absent"
    THEN IF st[k].status = "processing"
         THEN [reply |-> Reply("locked", NoFp, NoResult, 0), store |-> st]
         ELSE [reply |-> Reply("exists", st[k].fingerprint, st[k].result, st[k].owner),
               store |-> st]
    ELSE [reply |-> Reply("acquired", NoFp, NoResult, 0),
          store |-> [st EXCEPT ![k] = Expiring(Processing(c), lockTtlMs)]]

\* Faulty variant of commitResult: the record is written whatever the key holds.
MemoryCommitUnguarded(st, k, f, r, c, retentionMs) ==
    [ok |-> TRUE,
     store |-> [st EXCEPT ![k] = Expiring(Committed(f, r, c), retentionMs)]]

\* ok = FALSE: "Cannot commit: lock not held or expired" is thrown
MemoryCommitResult(st, k, f, r, c, retentionMs) ==
    IF st[k].status # "processing"
    THEN [ok |-> FALSE, store |-> st]
    ELSE [ok |-> TRUE,
          store |-> [st EXCEPT ![k] = Expiring(Committed(f, r, c), retentionMs)]]

\* Faulty variant of releaseLock: every lock of the store is dropped.
MemoryReleaseLockAll(st, k) ==
    [j \in DOMAIN st |-> IF st[j].status = "processing" THEN Absent ELSE st[j]]

MemoryReleaseLock(st, k) ==
    IF st[k].status = "processing" THEN [st EXCEPT ![k] = Absent] ELSE st

\* --------------------------------------- RedisAdapter and its Lua scripts
\* A key record of the model holds the JavaScript value that the JSON text
\* under the Redis key denotes.  Faulty variant of what the scripts do to a
\* result: nothing.
ThroughCjsonUnchanged(v) == v

\* A result on its way through a script: the JSON text of v is decoded by
\* cjson.decode and written back by cjson.encode.
ThroughCjson(v) == JsonParse(CjsonEncode(CjsonDecode(JsonStringify(v))))

\* Faulty variant of CHECK_AND_LOCK: the lock is written without PX.
RedisCheckAndLockNoExpiry(st, k, c, lockTtlMs) ==
    IF st[k].status = "absent"
    THEN [reply |-> Reply("acquired", NoFp, NoResult, 0),
          store |-> [st EXCEPT ![k] = Processing(c)]]
    ELSE IF st[k].status = "processing"
         THEN [reply |-> Reply("locked", NoFp, NoResult, 0), store |-> st]
         ELSE [reply |-> Reply("exists", st[k].fingerprint, st[k].result, st[k].owner),
               store |-> st]

\* CHECK_AND_LOCK behind RedisAdapter.atomicCheckAndLock: a value that does
\* not decode is answered `acquired` and is left as it is (the script returns
\* before its SET); SET ... PX raises an error when lock_ttl is not an
\* integer, and the adapter rethrows it.
RedisCheckAndLock(st, k, c, lockTtlMs) ==
    IF st[k].status # "absent"
    THEN IF st[k].status = "corrupt"
         THEN [reply |-> Reply("acquired", NoFp, NoResult, 0), store |-> st]
         ELSE IF st[k].status = "processing"
              THEN [reply |-> Reply("locked", NoFp, NoResult, 0), store |-> st]
              ELSE [reply |-> Reply("exists", st[k].fingerprint,
                                    ThroughCjson(st[k].result), st[k].owner),
                    store |-> st]
    ELSE IF lockTtlMs.nan
         THEN [reply |-> Rejected, store |-> st]
         ELSE [reply |-> Reply("acquired", NoFp, NoResult, 0),
               store |-> [st EXCEPT ![k] = Expiring(Processing(c), lockTtlMs)]]

\* COMMIT_RESULT behind RedisAdapter.commitResult: the script returns 0 unless
\* the value decodes to a processing record, and its SET ... PX raises an
\* error when retention_ms is not an integer; the adapter turns both into a
\* thrown Error (ok = FALSE).
RedisCommitScript(st, k, f, r, c, retentionMs) ==
    IF st[k].status = "absent"
    THEN [ok |-> FALSE, store |-> st]
    ELSE IF st[k].status = "corrupt" \/ st[k].status # "processing"
         THEN [ok |-> FALSE, store |-> st]
         ELSE IF retentionMs.nan
              THEN [ok |-> FALSE, store |-> st]
              ELSE [ok |-> TRUE,
                    store |-> [st EXCEPT ![k] =
                        Expiring(Committed(f, ThroughCjson(r), c), retentionMs)]]

\* releaseLock: redis.unlink(key), whatever the key holds; a rejected unlink
\* (unlinked = FALSE) is swallowed by the adapter's .catch
RedisReleaseLock(st, k, unlinked) ==
    IF unlinked THEN [st EXCEPT ![k] = Absent] ELSE st

\* ------------------------------------------------- the store interface
AtomicCheckAndLock(kind, st, k, c, lockTtlMs) ==
    IF kind = "redis" THEN RedisCheckAndLock(st, k, c, lockTtlMs)
    ELSE MemoryAtomicCheckAndLock(st, k, c, lockTtlMs)

CommitResult(kind, st, k, f, r, c, retentionMs) ==
    IF kind = "redis" THEN RedisCommitScript(st, k, f, r, c, retentionMs)
    ELSE MemoryCommitResult(st, k, f, r, c, retentionMs)

\* optional members of the interface
HasReleaseLock(kind) == kind # "minimal"
HasRecordAudit(kind) == kind \in {"memory", "custom"}
\* stores whose calls go over a connection and can reject
CanFail(kind) == kind # "memory"
\* MemoryStore.releaseLock has no failing path and RedisAdapter.releaseLock
\* catches its own; only a third-party releaseLock can reject
ReleaseCanReject(kind) == kind = "custom"

\* Faulty variant of the finally block: releaseLock is never called.
ReleaseLockSkipped(kind, st, k) == [called |-> FALSE, stores |-> {st}]

\* `await this.store.releaseLock?.(fullKey)` settling normally: whether the
\* method was called, and the stores it can leave behind.
ReleaseLock(kind, st, k) ==
    IF ~HasReleaseLock(kind) THEN [called |-> FALSE, stores |-> {st}]
    ELSE IF kind = "redis"
         THEN [called |-> TRUE,
               stores |-> {RedisReleaseLock(st, k, TRUE), RedisReleaseLock(st, k, FALSE)}]
         ELSE [called |-> TRUE, stores |-> {MemoryReleaseLock(st, k)}]

\* --------------------------------------------------------------- audit
Event(action, k, f, sf, md) ==
    [action |-> action, key |-> k, fingerprint |-> f, storedFingerprint |-> sf,
     metadata |-> md]

\* metadata keys: one that the pattern leaves alone, one it matches in upper
\* case, one through `.?`, one with two characters between full and name
\* (left alone), and one it matches in the middle of the name
RequestId == <<"r", "e", "q", "u", "e", "s", "t", "I", "d">>
UpperPin == <<"P", "I", "N">>
FullUnderscoreName == <<"f", "u", "l", "l", "_", "n", "a", "m", "e">>
FullTwoName == <<"f", "u", "l", "l", "_", "_", "n", "a", "m", "e">>
UserEmailHash == <<"u", "s", "e", "r", "E", "m", "a", "i", "l", "H", "a", "s", "h">>
Metadatas ==
    { NoMetadata,
      Metadata({RequestId, UpperPin, FullUnderscoreName, FullTwoName, UserEmailHash}) }
\* the metadata keys of the `error` / `timeout` event
ErrorKeys == { <<"e", "r", "r", "o", "r">>,
               <<"e", "r", "r", "o", "r", "C", "o", "d", "e">> }
\* every key a metadata object of the model can have
MetadataKeys == ErrorKeys \cup UNION { md.keys : md \in Metadatas }

\* Metadata keys are sequences of characters, so that the redaction pattern
\* /(password|token|secret|card|cvv|pin|ssn|full.?name|email|phone)/i is
\* computed on them.
UpperCase == <<"A", "B", "C", "D", "E", "F", "G", "H", "I", "J", "K", "L", "M",
               "N", "O", "P", "Q", "R", "S", "T", "U", "V", "W", "X", "Y", "Z">>
LowerCase == <<"a", "b", "c", "d", "e", "f", "g", "h", "i", "j", "k", "l", "m",
               "n", "o", "p", "q", "r", "s", "t", "u", "v", "w", "x", "y", "z">>

ToLowerChar(ch) ==
    IF \E i \in 1..Len(UpperCase) : UpperCase[i] = ch
    THEN LowerCase[CHOOSE i \in 1..Len(UpperCase) : UpperCase[i] = ch]
    ELSE ch

ToLower(s) == [i \in 1..Len(s) |-> ToLowerChar(s[i])]

\* pat occurs in s at position i
HasAt(s, i, pat) ==
    /\ i >= 1
    /\ i + Len(pat) - 1 <= Len(s)
    /\ SubSeq(s, i, i + Len(pat) - 1) = pat

Contains(s, pat) == \E i \in 1..Len(s) : HasAt(s, i, pat)

Words ==
    { <<"p", "a", "s", "s", "w", "o", "r", "d">>, <<"t", "o", "k", "e", "n">>,
      <<"s", "e", "c", "r", "e", "t">>, <<"c", "a", "r", "d">>, <<"c", "v", "v">>,
      <<"p", "i", "n">>, <<"s", "s", "n">>, <<"e", "m", "a", "i", "l">>,
      <<"p", "h", "o", "n", "e">> }

\* full.?name: "full", at most one character, "name"
FullName(s) ==
    \E i \in 1..Len(s) :
        /\ HasAt(s, i, <<"f", "u", "l", "l">>)
        /\ \/ HasAt(s, i + 4, <<"n", "a", "m", "e">>)
           \/ HasAt(s, i + 5, <<"n", "a", "m", "e">>)

\* Faulty variant of the pattern: without the i flag.
MatchesCaseSensitive(k) == (\E w \in Words : Contains(k, w)) \/ FullName(k)

\* k.match(/(password|...|phone)/i)
Matches(k) == (\E w \in Words : Contains(ToLower(k), w)) \/ FullName(ToLower(k))

\* the pattern, evaluated once for every key of the model
SensitiveKeys == { k \in MetadataKeys : Matches(k) }
SensitiveKey(k) == k \in SensitiveKeys

\* safeEvent: the event with the matching metadata keys filtered out
SafeEvent(ev) ==
    [ev EXCEPT !.metadata =
        IF @.given THEN Metadata({ k \in @.keys : ~SensitiveKey(k) }) ELSE @]

\* the metadata of the `error` / `timeout` event:
\* {...options?.metadata, error, errorCode}
WithError(md) == Metadata(md.keys \cup ErrorKeys)

\* Faulty variant: the engine-level sink is used whatever options.onAudit is.
ActiveSinkEngineOnly(c) == [name |-> "engine", behaviour |-> engine.onAudit]

\* options?.onAudit ?? this.options.onAudit
ActiveSink(c) ==
    IF opts[c].onAudit # NoOverride
    THEN [name |-> "override", behaviour |-> opts[c].onAudit]
    ELSE [name |-> "engine", behaviour |-> engine.onAudit]

\* an event as a sink received it
Delivery(ev, c) == [event |-> ev, sink |-> ActiveSink(c).name]

\* Faulty variants of _audit: the event reaches the sink twice / never.
AuditTwice(log, c, ev) ==
    [log EXCEPT ![c] = Append(Append(@, Delivery(ev, c)), Delivery(ev, c))]

AuditDropped(log, c, ev) == log

\* _audit: the redacted event is handed to the active sink (what the sink
\* does with it, throwing included, is swallowed)
Audit(log, c, ev) == [log EXCEPT ![c] = Append(@, Delivery(SafeEvent(ev), c))]

\* _audit: `await this.store.recordAudit?.(safeEvent)`, the statement after the
\* sink call in the try block: it is not reached when the sink threw
RecordAudit(log, c, ev) ==
    IF HasRecordAudit(storeKind) /\ ActiveSink(c).behaviour # "throws"
    THEN [log EXCEPT ![c] = Append(@, SafeEvent(ev))]
    ELSE log

\* one _audit call of call c
Emit(c, ev) ==
    /\ sinkLog' = Audit(sinkLog, c, ev)
    /\ auditLog' = RecordAudit(auditLog, c, ev)

Actions(c) == [i \in 1..Len(sinkLog[c]) |-> sinkLog[c][i].event.action]

\* ----------------------------------------------------------------- Init
NoReply == Reply("none", NoFp, NoResult, 0)

Init ==
    /\ engine = NewEngine(TestOptions)
    /\ opts = [c \in Calls |-> NoArgs]
    /\ commitArg = [c \in Calls |-> NotCalled]
    /\ auditLog = [c \in Calls |-> <<>>]
    /\ storeKind \in StoreKinds
    /\ store = [k \in FullKeys |-> Absent]
    /\ retentionElapsed = FALSE
    /\ pc = [c \in Calls |-> "idle"]
    /\ key = [c \in Calls |-> NoKey]
    /\ fp = [c \in Calls |-> NoFp]
    /\ checkResult = [c \in Calls |-> NoReply]
    /\ outcome = [c \in Calls |-> NoOutcome]
    /\ handlerCalls = [c \in Calls |-> 0]
    /\ handlerResult = [c \in Calls |-> NoResult]
    /\ releaseOutcome = [c \in Calls |-> "none"]
    /\ sinkLog = [c \in Calls |-> <<>>]
    /\ priorResults = [c \in Calls |-> {}]
    /\ fingerprinted = <<>>

\* ------------------------------------------------------------- execute()
\* Faulty variant of the validation: a whitespace-only key is accepted.
ValidateEmptyOnly(k, ht, ro) ==
    IF k.type # "string" \/ Len(k.chars) = 0 THEN "InvalidKey"
    ELSE IF Lt(Coalesce(ht, Num(DefaultHandlerTimeoutMs)), Num(MinLockOrTimeoutMs))
            \/ Gt(Coalesce(ht, Num(DefaultHandlerTimeoutMs)), Num(MaxLockOrTimeoutMs))
         THEN "InvalidHandlerTimeout"
    ELSE IF Lt(Coalesce(ro, engine.retention), Num(MinRetentionMs))
         THEN "InvalidRetention"
    ELSE "none"

\* What the validation prologue of execute() throws ("none": it passes).
Validate(k, ht, ro) ==
    IF k.type # "string" \/ Len(k.chars) = 0 \/ Len(Trim(k.chars)) = 0
    THEN "InvalidKey"
    ELSE IF Lt(Coalesce(ht, Num(DefaultHandlerTimeoutMs)), Num(MinLockOrTimeoutMs))
            \/ Gt(Coalesce(ht, Num(DefaultHandlerTimeoutMs)), Num(MaxLockOrTimeoutMs))
         THEN "InvalidHandlerTimeout"
    ELSE IF Lt(Coalesce(ro, engine.retention), Num(MinRetentionMs))
         THEN "InvalidRetention"
    ELSE "none"

\* The values execute() has returned so far for full key k and fingerprint f.
ReturnedFor(k, f) ==
    { outcome[d].value : d \in { e \in Calls : /\ pc[e] = "done"
                                               /\ key[e] = k
                                               /\ fp[e] = f
                                               /\ outcome[e].kind = "ok" } }

\* Keys and fingerprints are interchangeable values: the first key and the
\* first fingerprint that reach the store are taken to be these two.
FirstUse(k, f) ==
    (k.type = "string" /\ Len(Trim(k.chars)) # 0 /\ \A d \in Calls : key[d] = NoKey)
        => (Trim(k.chars) = <<"a">> /\ f = "F1")

\* execute(key, fingerprint, handler, options) is called: validation and
\* namespacing, up to the await of the store probe.  Calls are numbered in
\* the order they are made.
StartWith(c, keys, fps, hts, ros, oas, mds) ==
    /\ engine.state = "constructed"
    /\ pc[c] = "idle"
    /\ \A d \in Calls : d < c => pc[d] # "idle"
    /\ \E k \in keys, f \in fps, ht \in hts, ro \in ros, oa \in oas, md \in mds :
          /\ FirstUse(k, f)
          /\ IF Validate(k, ht, ro) # "none"
             THEN /\ pc' = [pc EXCEPT ![c] = "done"]
                  /\ outcome' = [outcome EXCEPT ![c] = Thrown(Validate(k, ht, ro))]
                  /\ opts' = [opts EXCEPT ![c] = Args(k, ht, ro, oa, md)]
                  /\ UNCHANGED <<key, fp, priorResults>>
             ELSE /\ pc' = [pc EXCEPT ![c] = "probe"]
                  /\ key' = [key EXCEPT ![c] = FullKey(k.chars)]
                  /\ fp' = [fp EXCEPT ![c] = f]
                  /\ opts' = [opts EXCEPT ![c] =
                        [Args(k, ht, ro, oa, md) EXCEPT
                            !.retentionMs = <<Coalesce(ro, engine.retention)>>,
                            !.lockTtl = <<engine.lockTtl>>]]
                  /\ priorResults' =
                        [priorResults EXCEPT ![c] = ReturnedFor(FullKey(k.chars), f)]
                  /\ UNCHANGED outcome
    /\ UNCHANGED <<fingerprinted, engine, commitArg, auditLog, storeKind, store, retentionElapsed,
                   checkResult, handlerCalls, handlerResult, releaseOutcome, sinkLog>>

\* execute() as the protocol claims exercise it: every kind of key, timeout
\* and retention option, the engine-level sink, no metadata.
Start(c) ==
    StartWith(c, ProtocolKeys, Fingerprints, ProtocolTimeouts, ProtocolRetentions,
              {NoOverride}, {NoMetadata})

\* Faulty variants of the branch: the stored fingerprint is not compared /
\* a `locked` reply is not rejected.
BranchNoFingerprintCheck(reply, f) ==
    IF reply.status = "exists" THEN "hit"
    ELSE IF reply.status = "locked" THEN "locked"
    ELSE "acquired"

BranchIgnoreLock(reply, f) ==
    IF reply.status = "exists"
    THEN IF reply.fingerprint # f THEN "fingerprint_mismatch" ELSE "hit"
    ELSE "acquired"

\* The engine's branch on the probe's reply.
Branch(reply, f) ==
    IF reply.status = "exists"
    THEN IF reply.fingerprint # f THEN "fingerprint_mismatch" ELSE "hit"
    ELSE IF reply.status = "locked" THEN "locked"
    ELSE "acquired"

\* Faulty variant: _audit without its try/catch, on the cache path and at
\* `acquired`: a throwing sink ends execute() with the sink's error.
ProbeSinkFailureEscapes(c) ==
    /\ pc[c] = "probe"
    /\ LET r == AtomicCheckAndLock(storeKind, store, key[c], c, opts[c].lockTtl[1])
           b == Branch(r.reply, fp[c])
       IN /\ r.reply # Rejected
          /\ store' = r.store
          /\ checkResult' = [checkResult EXCEPT ![c] = r.reply]
          /\ Emit(c, Event(b, key[c], fp[c], NoFp, opts[c].metadata))
          /\ IF ActiveSink(c).behaviour = "throws"
             THEN /\ outcome' = [outcome EXCEPT ![c] = Thrown("AuditFailure")]
                  /\ pc' = [pc EXCEPT ![c] = "done"]
                  /\ UNCHANGED handlerCalls
             ELSE IF b = "acquired"
             THEN /\ handlerCalls' = [handlerCalls EXCEPT ![c] = @ + 1]
                  /\ pc' = [pc EXCEPT ![c] = "handler"]
                  /\ UNCHANGED outcome
             ELSE /\ outcome' = [outcome EXCEPT ![c] =
                        IF b = "hit" THEN Returned(r.reply.result)
                        ELSE IF b = "locked" THEN Thrown("OperationInProgress")
                        ELSE Thrown("FingerprintMismatch")]
                  /\ pc' = [pc EXCEPT ![c] = "done"]
                  /\ UNCHANGED handlerCalls
    /\ UNCHANGED <<fingerprinted, engine, opts, commitArg, storeKind, retentionElapsed, key, fp,
                   handlerResult, releaseOutcome, priorResults>>

\* Faulty variant: the probe and its branches are inside the try block, so
\* that the finally block releases the key on the cache path as well.
ProbeInsideTry(c) ==
    /\ pc[c] = "probe"
    /\ LET r == AtomicCheckAndLock(storeKind, store, key[c], c, opts[c].lockTtl[1])
           b == Branch(r.reply, fp[c])
       IN /\ r.reply # Rejected
          /\ store' = r.store
          /\ checkResult' = [checkResult EXCEPT ![c] = r.reply]
          /\ Emit(c, Event(b, key[c], fp[c], NoFp, opts[c].metadata))
          /\ IF b = "acquired"
             THEN /\ handlerCalls' = [handlerCalls EXCEPT ![c] = @ + 1]
                  /\ pc' = [pc EXCEPT ![c] = "handler"]
                  /\ UNCHANGED outcome
             ELSE /\ outcome' = [outcome EXCEPT ![c] =
                        IF b = "hit" THEN Returned(r.reply.result)
                        ELSE IF b = "locked" THEN Thrown("OperationInProgress")
                        ELSE FingerprintMismatchError(NoFp)]
                  /\ pc' = [pc EXCEPT ![c] = "release"]
                  /\ UNCHANGED handlerCalls
    /\ UNCHANGED <<fingerprinted, engine, opts, commitArg, storeKind, retentionElapsed, key, fp,
                   handlerResult, releaseOutcome, priorResults>>

\* store.atomicCheckAndLock answers, and the call runs on to its next
\* suspension: to its return/throw on the cache path, to the pending handler
\* on the acquired path.
Probe(c) ==
    /\ pc[c] = "probe"
    /\ LET r == AtomicCheckAndLock(storeKind, store, key[c], c, opts[c].lockTtl[1])
           b == Branch(r.reply, fp[c])
       IN /\ r.reply # Rejected
          /\ store' = r.store
          /\ checkResult' = [checkResult EXCEPT ![c] = r.reply]
          /\ CASE b = "fingerprint_mismatch" ->
                    /\ Emit(c,
                           Event("fingerprint_mismatch", key[c], fp[c],
                                 r.reply.fingerprint, opts[c].metadata))
                    \* new FingerprintMismatchError(message): the second
                    \* parameter, storedFingerprint, is not passed
                    /\ outcome' = [outcome EXCEPT ![c] = FingerprintMismatchError(NoFp)]
                    /\ pc' = [pc EXCEPT ![c] = "done"]
                    /\ UNCHANGED handlerCalls
               [] b = "hit" ->
                    /\ Emit(c, Event("hit", key[c], fp[c], NoFp, opts[c].metadata))
                    /\ outcome' = [outcome EXCEPT ![c] = Returned(r.reply.result)]
                    /\ pc' = [pc EXCEPT ![c] = "done"]
                    /\ UNCHANGED handlerCalls
               [] b = "locked" ->
                    /\ Emit(c, Event("locked", key[c], NoFp, NoFp, opts[c].metadata))
                    /\ outcome' = [outcome EXCEPT ![c] = Thrown("OperationInProgress")]
                    /\ pc' = [pc EXCEPT ![c] = "done"]
                    /\ UNCHANGED handlerCalls
               [] b = "acquired" ->
                    /\ Emit(c, Event("acquired", key[c], fp[c], NoFp, opts[c].metadata))
                    /\ handlerCalls' = [handlerCalls EXCEPT ![c] = @ + 1]
                    /\ pc' = [pc EXCEPT ![c] = "handler"]
                    /\ UNCHANGED outcome
    /\ UNCHANGED <<fingerprinted, engine, opts, commitArg, storeKind, retentionElapsed, key, fp, handlerResult,
                   releaseOutcome, priorResults>>

\* store.atomicCheckAndLock rejects (connection lost, script error): the
\* rejection leaves execute() as it is, before any audit.
ProbeFail(c) ==
    /\ pc[c] = "probe"
    /\ \/ CanFail(storeKind)
       \/ AtomicCheckAndLock(storeKind, store, key[c], c, opts[c].lockTtl[1]).reply
              = Rejected
    /\ pc' = [pc EXCEPT ![c] = "done"]
    /\ outcome' = [outcome EXCEPT ![c] = Thrown("StoreUnavailable")]
    /\ UNCHANGED <<fingerprinted, engine, opts, commitArg, storeKind, store, retentionElapsed, key, fp, checkResult,
                   handlerCalls, handlerResult, releaseOutcome, sinkLog, auditLog, priorResults>>

\* The handler's promise resolves before the timer fires; the value a call's
\* handler produces is tagged with the call.
HandlerResolveWith(c, results) ==
    /\ pc[c] = "handler"
    /\ \E r \in results : handlerResult' = [handlerResult EXCEPT ![c] = r]
    /\ pc' = [pc EXCEPT ![c] = "commit"]
    /\ UNCHANGED <<fingerprinted, engine, opts, commitArg, storeKind, store, retentionElapsed, key, fp, checkResult, outcome,
                   handlerCalls, releaseOutcome, sinkLog, auditLog, priorResults>>

\* The handler resolves as the handlers of the tests do.
HandlerResolve(c) == HandlerResolveWith(c, {ResultOf(c)})

\* Faulty variant of the catch block: the error is rethrown unaudited.
CatchNoAudit(c, err) ==
    /\ sinkLog' = sinkLog
    /\ auditLog' = auditLog
    /\ outcome' = [outcome EXCEPT ![c] = Thrown(err)]
    /\ pc' = [pc EXCEPT ![c] = "release"]

\* catch (err): the `error` / `timeout` audit, then the rethrow is pending
\* while the finally block runs.
Catch(c, err) ==
    /\ Emit(c, Event(IF err = "HandlerTimeout" THEN "timeout" ELSE "error",
                      key[c], fp[c], NoFp, WithError(opts[c].metadata)))
    /\ outcome' = [outcome EXCEPT ![c] = Thrown(err)]
    /\ pc' = [pc EXCEPT ![c] = "release"]

\* Faulty variant: the handler's error reaches the caller wrapped in another.
HandlerRejectWrapped(c) ==
    /\ pc[c] = "handler"
    /\ Catch(c, "InternalError")
    /\ UNCHANGED <<fingerprinted, engine, opts, commitArg, storeKind, store, retentionElapsed, key, fp,
                   checkResult, handlerCalls, handlerResult, releaseOutcome,
                   priorResults>>

\* The handler throws or rejects before the timer fires.
HandlerReject(c) ==
    /\ pc[c] = "handler"
    /\ Catch(c, "HandlerError")
    /\ UNCHANGED <<fingerprinted, engine, opts, commitArg, storeKind, store, retentionElapsed, key, fp, checkResult,
                   handlerCalls, handlerResult, releaseOutcome, priorResults>>

\* Faulty variant: the timer is armed once the handler has settled, so it
\* never fires while the handler is pending.
TimerArmedAfterHandler(c) ==
    /\ pc[c] = "handler"
    /\ handlerResult[c] # NoResult
    /\ Catch(c, "HandlerTimeout")
    /\ UNCHANGED <<fingerprinted, engine, opts, commitArg, storeKind, store, retentionElapsed, key, fp, checkResult,
                   handlerCalls, handlerResult, releaseOutcome, priorResults>>

\* The handlerTimeout timer fires while the handler is pending.
TimerFires(c) ==
    /\ pc[c] = "handler"
    /\ Catch(c, "HandlerTimeout")
    /\ UNCHANGED <<fingerprinted, engine, opts, commitArg, storeKind, store, retentionElapsed, key, fp, checkResult,
                   handlerCalls, handlerResult, releaseOutcome, priorResults>>

\* Faulty variant: the late result of a timed-out handler is still committed.
HandlerSettlesLateCommits(c) ==
    /\ pc[c] \in {"release", "done"}
    /\ outcome[c] = Thrown("HandlerTimeout")
    /\ handlerResult[c] = NoResult
    /\ handlerResult' = [handlerResult EXCEPT ![c] = ResultOf(c)]
    /\ store' = CommitResult(storeKind, store, key[c], fp[c], ResultOf(c), c,
                             opts[c].retentionMs[1]).store
    /\ UNCHANGED <<fingerprinted, engine, opts, commitArg, auditLog, storeKind,
                   retentionElapsed, pc, key, fp, checkResult, outcome, handlerCalls,
                   releaseOutcome, sinkLog, priorResults>>

\* The handler of a call that timed out resolves afterwards: Promise.race has
\* settled, nobody reads the value.
HandlerSettlesLate(c) ==
    /\ pc[c] \in {"release", "done"}
    /\ outcome[c] = Thrown("HandlerTimeout")
    /\ handlerResult[c] = NoResult
    /\ handlerResult' = [handlerResult EXCEPT ![c] = ResultOf(c)]
    /\ UNCHANGED <<fingerprinted, engine, opts, commitArg, auditLog, storeKind, store,
                   retentionElapsed, pc, key, fp, checkResult, outcome, handlerCalls,
                   releaseOutcome, sinkLog, priorResults>>

\* Faulty variant: a refused commit is swallowed; `stored` is emitted and the
\* handler's value returned all the same.
CommitFailureSwallowed(c) ==
    /\ pc[c] = "commit"
    /\ store' = CommitResult(storeKind, store, key[c], fp[c], handlerResult[c], c,
                             opts[c].retentionMs[1]).store
    /\ Emit(c, Event("stored", key[c], fp[c], NoFp, opts[c].metadata))
    /\ outcome' = [outcome EXCEPT ![c] = Returned(handlerResult[c])]
    /\ pc' = [pc EXCEPT ![c] = "release"]
    /\ commitArg' = [commitArg EXCEPT ![c] = opts[c].retentionMs]
    /\ UNCHANGED <<fingerprinted, engine, opts, storeKind, retentionElapsed, key, fp, checkResult,
                   handlerCalls, handlerResult, releaseOutcome, priorResults>>

\* store.commitResult answers: `stored` and the pending return on success,
\* the catch block when it throws.
Commit(c) ==
    /\ pc[c] = "commit"
    /\ LET r == CommitResult(storeKind, store, key[c], fp[c], handlerResult[c], c,
                             opts[c].retentionMs[1])
       IN IF r.ok
          THEN /\ store' = r.store
               /\ Emit(c, Event("stored", key[c], fp[c], NoFp, opts[c].metadata))
               /\ outcome' = [outcome EXCEPT ![c] = Returned(handlerResult[c])]
               /\ pc' = [pc EXCEPT ![c] = "release"]
          ELSE /\ store' = store
               /\ Catch(c, "CommitRefused")
    /\ commitArg' = [commitArg EXCEPT ![c] = opts[c].retentionMs]
    /\ UNCHANGED <<fingerprinted, engine, opts, storeKind, retentionElapsed, key, fp, checkResult,
                   handlerCalls, handlerResult, releaseOutcome, priorResults>>

\* store.commitResult rejects without having written (connection lost).
CommitFail(c) ==
    /\ pc[c] = "commit"
    /\ CanFail(storeKind)
    /\ Catch(c, "StoreUnavailable")
    /\ commitArg' = [commitArg EXCEPT ![c] = opts[c].retentionMs]
    /\ UNCHANGED <<fingerprinted, engine, opts, storeKind, store, retentionElapsed, key, fp, checkResult,
                   handlerCalls, handlerResult, releaseOutcome, priorResults>>

\* finally: `await this.store.releaseLock?.(fullKey)` settles normally, then
\* `lock_released`, then the pending return or throw completes.
Release(c) ==
    /\ pc[c] = "release"
    /\ LET r == ReleaseLock(storeKind, store, key[c])
       IN /\ store' \in r.stores
          /\ releaseOutcome' =
                [releaseOutcome EXCEPT ![c] = IF r.called THEN "settled" ELSE "absent"]
    /\ Emit(c, Event("lock_released", key[c], NoFp, NoFp, opts[c].metadata))
    /\ pc' = [pc EXCEPT ![c] = "done"]
    /\ UNCHANGED <<fingerprinted, engine, opts, commitArg, storeKind, retentionElapsed, key, fp, checkResult, outcome,
                   handlerCalls, handlerResult, priorResults>>

\* Faulty variant: no try/catch around releaseLock, its rejection replaces the
\* pending return or throw.
ReleaseRejectsPropagates(c) ==
    /\ pc[c] = "release"
    /\ HasReleaseLock(storeKind)
    /\ ReleaseCanReject(storeKind)
    /\ releaseOutcome' = [releaseOutcome EXCEPT ![c] = "rejected"]
    /\ outcome' = [outcome EXCEPT ![c] = Thrown("ReleaseFailure")]
    /\ pc' = [pc EXCEPT ![c] = "done"]
    /\ UNCHANGED <<fingerprinted, engine, opts, commitArg, storeKind, store, retentionElapsed, key, fp, checkResult,
                   handlerCalls, handlerResult, sinkLog, auditLog, priorResults>>

\* finally: store.releaseLock rejects; the inner catch swallows it, the
\* `lock_released` audit after it in the try block is skipped, and the
\* pending return or throw completes.
ReleaseRejects(c) ==
    /\ pc[c] = "release"
    /\ HasReleaseLock(storeKind)
    /\ ReleaseCanReject(storeKind)
    /\ releaseOutcome' = [releaseOutcome EXCEPT ![c] = "rejected"]
    /\ pc' = [pc EXCEPT ![c] = "done"]
    /\ UNCHANGED <<fingerprinted, engine, opts, commitArg, storeKind, store, retentionElapsed, key, fp, checkResult, outcome,
                   handlerCalls, handlerResult, sinkLog, auditLog, priorResults>>

\* ------------------------------------------------------------ the store's timers
\* The lock TTL of a processing record elapses (setTimeout in MemoryStore,
\* PX in Redis).
LockExpire(k) ==
    /\ store[k].status = "processing"
    /\ store[k].px # <<>>
    /\ store' = [store EXCEPT ![k] = Absent]
    /\ UNCHANGED <<fingerprinted, engine, opts, commitArg, storeKind, retentionElapsed, pc, key, fp, checkResult, outcome,
                   handlerCalls, handlerResult, releaseOutcome, sinkLog, auditLog, priorResults>>

\* The retention of a committed record elapses.
RetentionExpire(k) ==
    /\ store[k].status = "committed"
    /\ store[k].px # <<>>
    /\ store' = [store EXCEPT ![k] = Absent]
    /\ retentionElapsed' = TRUE
    /\ UNCHANGED <<fingerprinted, engine, opts, commitArg, storeKind, pc, key, fp, checkResult, outcome, handlerCalls,
                   handlerResult, releaseOutcome, sinkLog, auditLog, priorResults>>

Next ==
    \/ \E c \in Calls : Start(c)
    \/ \E c \in Calls : Probe(c)
    \/ \E c \in Calls : ProbeFail(c)
    \/ \E c \in Calls : HandlerResolve(c)
    \/ \E c \in Calls : HandlerReject(c)
    \/ \E c \in Calls : TimerFires(c)
    \/ \E c \in Calls : HandlerSettlesLate(c)
    \/ \E c \in Calls : Commit(c)
    \/ \E c \in Calls : CommitFail(c)
    \/ \E c \in Calls : Release(c)
    \/ \E c \in Calls : ReleaseRejects(c)
    \/ \E k \in FullKeys : LockExpire(k)
    \/ \E k \in FullKeys : RetentionExpire(k)

Spec == Init /\ [][Next]_vars

\* ------------------------------------------------- the audit inputs
\* The engine of the tests with a sink that resolves or one that throws.
InitAudit ==
    /\ engine \in { NewEngine([TestOptions EXCEPT !.onAudit = b]) :
                        b \in {"resolves", "throws"} }
    /\ opts = [c \in Calls |-> NoArgs]
    /\ commitArg = [c \in Calls |-> NotCalled]
    /\ auditLog = [c \in Calls |-> <<>>]
    /\ storeKind \in StoreKinds
    /\ store = [k \in FullKeys |-> Absent]
    /\ retentionElapsed = FALSE
    /\ pc = [c \in Calls |-> "idle"]
    /\ key = [c \in Calls |-> NoKey]
    /\ fp = [c \in Calls |-> NoFp]
    /\ checkResult = [c \in Calls |-> NoReply]
    /\ outcome = [c \in Calls |-> NoOutcome]
    /\ handlerCalls = [c \in Calls |-> 0]
    /\ handlerResult = [c \in Calls |-> NoResult]
    /\ releaseOutcome = [c \in Calls |-> "none"]
    /\ sinkLog = [c \in Calls |-> <<>>]
    /\ priorResults = [c \in Calls |-> {}]
    /\ fingerprinted = <<>>

\* execute() as the audit claims exercise it: one key, default timeout and
\* retention, every options.onAudit and options.metadata.
StartAudit(c) ==
    StartWith(c, {StringKey(<<"a">>)}, Fingerprints, {<<>>}, {<<>>},
              AuditOverrides, Metadatas)

NextAudit ==
    \/ \E c \in Calls : StartAudit(c)
    \/ \E c \in Calls : Probe(c)
    \/ \E c \in Calls : ProbeFail(c)
    \/ \E c \in Calls : HandlerResolve(c)
    \/ \E c \in Calls : HandlerReject(c)
    \/ \E c \in Calls : TimerFires(c)
    \/ \E c \in Calls : HandlerSettlesLate(c)
    \/ \E c \in Calls : Commit(c)
    \/ \E c \in Calls : CommitFail(c)
    \/ \E c \in Calls : Release(c)
    \/ \E c \in Calls : ReleaseRejects(c)
    \/ \E k \in FullKeys : LockExpire(k)
    \/ \E k \in FullKeys : RetentionExpire(k)

SpecAudit == InitAudit /\ [][NextAudit]_vars

\* ------------------------------------------------- the option inputs
\* options.retentionOverride: not given, below / at / above 24 hours, NaN
TwoDaysMs == 172800000
WideRetentionOverrides ==
    { <<>>, <<Num(MinRetentionMs - 1)>>, <<Num(MinRetentionMs)>>, <<Num(TwoDaysMs)>>, <<NaN>> }

\* execute() as the key and retention claims exercise it: every kind of key
\* argument and of retentionOverride, one fingerprint.
StartOptions(c) ==
    StartWith(c, KeyArgs, {"F1"}, ProtocolTimeouts, WideRetentionOverrides,
              {NoOverride}, {NoMetadata})

NextOptions ==
    \/ \E c \in Calls : StartOptions(c)
    \/ \E c \in Calls : Probe(c)
    \/ \E c \in Calls : ProbeFail(c)
    \/ \E c \in Calls : HandlerResolve(c)
    \/ \E c \in Calls : HandlerReject(c)
    \/ \E c \in Calls : TimerFires(c)
    \/ \E c \in Calls : HandlerSettlesLate(c)
    \/ \E c \in Calls : Commit(c)
    \/ \E c \in Calls : CommitFail(c)
    \/ \E c \in Calls : Release(c)
    \/ \E c \in Calls : ReleaseRejects(c)
    \/ \E k \in FullKeys : LockExpire(k)
    \/ \E k \in FullKeys : RetentionExpire(k)

SpecOptions == Init /\ [][NextOptions]_vars

\* ------------------------------------------------- construction
\* EngineOptions: lockTtl below / at / above the two limits and NaN,
\* retention below / at 24 hours and NaN, onAudit a function or missing
ConstructOptions ==
    [lockTtl : { Num(MinLockOrTimeoutMs - 1), Num(MinLockOrTimeoutMs),
                 Num(MaxLockOrTimeoutMs), Num(MaxLockOrTimeoutMs + 1), NaN },
     retention : { Num(MinRetentionMs - 1), Num(MinRetentionMs), NaN },
     onAudit : { "resolves", "missing" }]

\* Nothing constructed yet.
InitConstruct ==
    /\ engine = NoEngine
    /\ opts = [c \in Calls |-> NoArgs]
    /\ commitArg = [c \in Calls |-> NotCalled]
    /\ auditLog = [c \in Calls |-> <<>>]
    /\ storeKind \in StoreKinds
    /\ store = [k \in FullKeys |-> Absent]
    /\ retentionElapsed = FALSE
    /\ pc = [c \in Calls |-> "idle"]
    /\ key = [c \in Calls |-> NoKey]
    /\ fp = [c \in Calls |-> NoFp]
    /\ checkResult = [c \in Calls |-> NoReply]
    /\ outcome = [c \in Calls |-> NoOutcome]
    /\ handlerCalls = [c \in Calls |-> 0]
    /\ handlerResult = [c \in Calls |-> NoResult]
    /\ releaseOutcome = [c \in Calls |-> "none"]
    /\ sinkLog = [c \in Calls |-> <<>>]
    /\ priorResults = [c \in Calls |-> {}]
    /\ fingerprinted = <<>>

\* new IdempotencyEngine(store, options)
Construct ==
    /\ engine.state = "none"
    /\ \E o \in ConstructOptions : engine' = NewEngine(o)
    /\ UNCHANGED <<fingerprinted, opts, commitArg, auditLog, storeKind, store, retentionElapsed, pc,
                   key, fp, checkResult, outcome, handlerCalls, handlerResult,
                   releaseOutcome, sinkLog, priorResults>>

\* execute() on the engine that was constructed: one key, one fingerprint,
\* every handlerTimeout, the engine's retention.
StartConstructed(c) ==
    StartWith(c, {StringKey(<<"a">>)}, {"F1"}, HandlerTimeouts, {<<>>},
              {NoOverride}, {NoMetadata})

NextConstruct ==
    \/ Construct
    \/ \E c \in Calls : StartConstructed(c)
    \/ \E c \in Calls : Probe(c)
    \/ \E c \in Calls : ProbeFail(c)
    \/ \E c \in Calls : HandlerResolve(c)
    \/ \E c \in Calls : HandlerReject(c)
    \/ \E c \in Calls : TimerFires(c)
    \/ \E c \in Calls : HandlerSettlesLate(c)
    \/ \E c \in Calls : Commit(c)
    \/ \E c \in Calls : CommitFail(c)
    \/ \E c \in Calls : Release(c)
    \/ \E c \in Calls : ReleaseRejects(c)
    \/ \E k \in FullKeys : LockExpire(k)
    \/ \E k \in FullKeys : RetentionExpire(k)

SpecConstruct == InitConstruct /\ [][NextConstruct]_vars

\* ------------------------------------------------- the store contract
\* The engine of the tests on each of the repository's two stores, whose
\* methods it calls: atomicCheckAndLock in Probe, commitResult in Commit,
\* releaseLock in Release.
RepositoryStores == {"memory", "redis"}

InitStore ==
    /\ engine = NewEngine(TestOptions)
    /\ opts = [c \in Calls |-> NoArgs]
    /\ commitArg = [c \in Calls |-> NotCalled]
    /\ auditLog = [c \in Calls |-> <<>>]
    /\ storeKind \in RepositoryStores
    /\ store = [k \in FullKeys |-> Absent]
    /\ retentionElapsed = FALSE
    /\ pc = [c \in Calls |-> "idle"]
    /\ key = [c \in Calls |-> NoKey]
    /\ fp = [c \in Calls |-> NoFp]
    /\ checkResult = [c \in Calls |-> NoReply]
    /\ outcome = [c \in Calls |-> NoOutcome]
    /\ handlerCalls = [c \in Calls |-> 0]
    /\ handlerResult = [c \in Calls |-> NoResult]
    /\ releaseOutcome = [c \in Calls |-> "none"]
    /\ sinkLog = [c \in Calls |-> <<>>]
    /\ priorResults = [c \in Calls |-> {}]
    /\ fingerprinted = <<>>

\* execute() with valid arguments: two keys, two fingerprints, the defaults.
StartStore(c) ==
    StartWith(c, {StringKey(<<"a">>), StringKey(<<"b">>)}, Fingerprints, {<<>>}, {<<>>},
              {NoOverride}, {NoMetadata})

\* The handler resolves with any of the results.
HandlerResolveAny(c) == HandlerResolveWith(c, Results(c))

\* Something other than the adapter leaves a value under a free Redis key
\* that does not decode (a truncated write; redis.set(key, '{"status":"proce')
\* in the adapter's tests).  It has no expiry.
Corrupt(k) ==
    /\ storeKind = "redis"
    /\ store[k].status = "absent"
    /\ store' = [store EXCEPT ![k] = Corrupted]
    /\ UNCHANGED <<fingerprinted, engine, opts, commitArg, storeKind, retentionElapsed, pc, key, fp,
                   checkResult, outcome, handlerCalls, handlerResult, releaseOutcome,
                   sinkLog, auditLog, priorResults>>

NextStore ==
    \/ \E c \in Calls : StartStore(c)
    \/ \E c \in Calls : Probe(c)
    \/ \E c \in Calls : ProbeFail(c)
    \/ \E c \in Calls : HandlerResolveAny(c)
    \/ \E c \in Calls : HandlerReject(c)
    \/ \E c \in Calls : TimerFires(c)
    \/ \E c \in Calls : HandlerSettlesLate(c)
    \/ \E c \in Calls : Commit(c)
    \/ \E c \in Calls : CommitFail(c)
    \/ \E c \in Calls : Release(c)
    \/ \E k \in FullKeys : LockExpire(k)
    \/ \E k \in FullKeys : RetentionExpire(k)
    \/ \E k \in FullKeys : Corrupt(k)

SpecStore == InitStore /\ [][NextStore]_vars

\* ------------------------------------------------- crashes and expiry
\* The process that runs call c dies while the call is suspended after
\* `acquired`: the call takes no further step, it neither commits nor
\* releases.
Crash(c) ==
    /\ pc[c] \in {"handler", "commit", "release"}
    /\ pc' = [pc EXCEPT ![c] = "crashed"]
    /\ UNCHANGED <<fingerprinted, engine, opts, commitArg, storeKind, store, retentionElapsed, key, fp,
                   checkResult, outcome, handlerCalls, handlerResult, releaseOutcome,
                   sinkLog, auditLog, priorResults>>

NextLive ==
    \/ \E c \in Calls : StartStore(c)
    \/ \E c \in Calls : Probe(c)
    \/ \E c \in Calls : ProbeFail(c)
    \/ \E c \in Calls : HandlerResolve(c)
    \/ \E c \in Calls : HandlerReject(c)
    \/ \E c \in Calls : TimerFires(c)
    \/ \E c \in Calls : HandlerSettlesLate(c)
    \/ \E c \in Calls : Commit(c)
    \/ \E c \in Calls : CommitFail(c)
    \/ \E c \in Calls : Release(c)
    \/ \E c \in Calls : Crash(c)
    \/ \E k \in FullKeys : LockExpire(k)
    \/ \E k \in FullKeys : RetentionExpire(k)

\* The only step that is bound to happen is the expiry of a lock: the timer
\* that MemoryStore arms with setTimeout(..., lockTtlMs) fires, and Redis
\* drops a key written with PX lock_ttl, whatever the calls do.  No call is
\* bound to take its next step.
SpecLive ==
    /\ InitStore
    /\ [][NextLive]_vars
    /\ \A k \in FullKeys : WF_vars(LockExpire(k))

\* ------------------------------------------------------- fingerprint()
\* The argument of fingerprint(): a JSON scalar (its token), an array (kids
\* in index order) or a plain object (kids in the order in which the keys
\* were inserted, which is the order of Object.entries for keys that are not
\* array indices).  A kid is [k |-> key, v |-> value]; the kids of an array
\* have the key <<>>.
Scalar(token) == [t |-> "scalar", token |-> token, kids |-> <<>>]
Arr(items) ==
    [t |-> "array", token |-> "",
     kids |-> [i \in 1..Len(items) |-> [k |-> <<>>, v |-> items[i]]]]
Obj(entries) == [t |-> "object", token |-> "", kids |-> entries]
Entry(k, v) == [k |-> k, v |-> v]

\* Object keys are sequences of code points.  The last two are different
\* strings that are canonically equivalent: U+00E9, and U+0065 U+0301.
KeyA == <<"a">>
KeyB == <<"b">>
KeyComposed == <<"e-acute">>
KeyDecomposed == <<"e", "combining-acute">>

\* the two insertion orders of an object with two keys
Orders(k1, v1, k2, v2) ==
    { Obj(<<Entry(k1, v1), Entry(k2, v2)>>), Obj(<<Entry(k2, v2), Entry(k1, v1)>>) }

\* {a: 1, b: 2} in both orders, as the tests have it
FlatPayloads == Orders(KeyA, Scalar("1"), KeyB, Scalar("2"))
\* {a: {a: 1, b: 2}, b: 2}: both orders at both depths
NestedPayloads == UNION { Orders(KeyA, inner, KeyB, Scalar("2")) : inner \in FlatPayloads }
\* arrays: [1, 2], [2, 1], and an array of one object in both orders
ArrayPayloads ==
    { Arr(<<Scalar("1"), Scalar("2")>>), Arr(<<Scalar("2"), Scalar("1")>>) }
        \cup { Arr(<<inner>>) : inner \in FlatPayloads }
\* an object whose two keys are canonically equivalent
EquivalentKeyPayloads == Orders(KeyComposed, Scalar("1"), KeyDecomposed, Scalar("2"))
Payloads ==
    { Scalar("1"), Scalar("null") } \cup FlatPayloads \cup NestedPayloads
        \cup ArrayPayloads \cup EquivalentKeyPayloads

\* Unicode canonical composition, on the code points of the model
RECURSIVE Nfc(_)
Nfc(s) ==
    IF s = <<>> THEN <<>>
    ELSE IF Len(s) >= 2 /\ s[1] = "e" /\ s[2] = "combining-acute"
         THEN <<"e-acute">> \o Nfc(SubSeq(s, 3, Len(s)))
         ELSE <<s[1]>> \o Nfc(Tail(s))

\* the collation order of the characters
Collation == <<"a", "b", "e", "e-acute", "combining-acute">>
Rank(ch) == CHOOSE i \in 1..Len(Collation) : Collation[i] = ch

RECURSIVE Before(_, _)
Before(x, y) ==
    IF y = <<>> THEN FALSE
    ELSE IF x = <<>> THEN TRUE
    ELSE IF Rank(x[1]) # Rank(y[1]) THEN Rank(x[1]) < Rank(y[1])
    ELSE Before(Tail(x), Tail(y))

\* a.localeCompare(b) < 0: the comparison is made on the canonical form of
\* the strings, so that canonically equivalent strings compare as equal (0)
LocaleCompareNegative(a, b) == Before(Nfc(a), Nfc(b))

\* entries.sort(([a], [b]) => a.localeCompare(b)): the sort is stable, an
\* entry goes behind every entry that does not compare greater
RECURSIVE Insert(_, _)
Insert(sorted, e) ==
    IF sorted = <<>> THEN <<e>>
    ELSE IF LocaleCompareNegative(e.k, Head(sorted).k) THEN <<e>> \o sorted
    ELSE <<Head(sorted)>> \o Insert(Tail(sorted), e)

RECURSIVE SortEntries(_)
SortEntries(entries) ==
    IF entries = <<>> THEN <<>>
    ELSE Insert(SortEntries(SubSeq(entries, 1, Len(entries) - 1)),
                entries[Len(entries)])

\* normalize: scalars as they are, arrays element by element, objects
\* rebuilt from their sorted entries with normalized values
RECURSIVE Normalize(_)
Normalize(value) ==
    IF value.t = "scalar" THEN value
    ELSE LET entries == IF value.t = "array" THEN value.kids
                        ELSE SortEntries(value.kids)
         IN [value EXCEPT !.kids =
                [i \in 1..Len(entries) |->
                    Entry(entries[i].k, Normalize(entries[i].v))]]

\* JSON.stringify of a normalized value, as a sequence of tokens; a key is
\* written with the code points it has
RECURSIVE Stringify(_)
RECURSIVE StringifyKids(_, _)
StringifyKids(kids, isObject) ==
    IF kids = <<>> THEN <<>>
    ELSE (IF isObject THEN <<"\"">> \o Head(kids).k \o <<"\"", ":">> ELSE <<>>)
            \o Stringify(Head(kids).v)
            \o (IF Len(kids) > 1 THEN <<",">> ELSE <<>>)
            \o StringifyKids(Tail(kids), isObject)
Stringify(value) ==
    IF value.t = "scalar" THEN <<value.token>>
    ELSE IF value.t = "array" THEN <<"[">> \o StringifyKids(value.kids, FALSE) \o <<"]">>
    ELSE <<"{">> \o StringifyKids(value.kids, TRUE) \o <<"}">>

\* createHash(algorithm).update(text).digest("hex"): a function of the text
\* that is taken to have no collisions
Digest(algorithm, text) == [algorithm |-> algorithm, of |-> text]

\* fingerprint(data), fingerprintAlgorithm being the default
Fingerprint(data) == Digest("sha256", Stringify(Normalize(data)))

\* engine.fingerprint(data) is called
FingerprintCall(data) ==
    /\ engine.state = "constructed"
    /\ Len(fingerprinted) < MaxFingerprints
    /\ fingerprinted' =
          Append(fingerprinted, [data |-> data, digest |-> Fingerprint(data)])
    /\ UNCHANGED <<engine, opts, commitArg, auditLog, storeKind, store,
                   retentionElapsed, pc, key, fp, checkResult, outcome, handlerCalls,
                   handlerResult, releaseOutcome, sinkLog, priorResults>>

NextFingerprint == \E data \in Payloads : FingerprintCall(data)

SpecFingerprint == Init /\ [][NextFingerprint]_vars

\* ------------------------------------------------- settling operations
\* Every store operation settles: a pending atomicCheckAndLock, commitResult
\* or releaseLock resolves or rejects, and the audit calls that follow it in
\* the same step settle with it.  The timer that execute() races against the
\* handler fires unless the handler settles first.  The handler itself is
\* bound to nothing: it may stay pending for ever.
Settles(c) ==
    /\ WF_vars(Probe(c) \/ ProbeFail(c))
    /\ WF_vars(TimerFires(c))
    /\ WF_vars(Commit(c) \/ CommitFail(c))
    /\ WF_vars(Release(c) \/ ReleaseRejects(c))

SpecSettling == Init /\ [][Next]_vars /\ \A c \in Calls : Settles(c)

\* ===================================================================
\* Properties
\* ===================================================================
Acquired(c) == checkResult[c].status = "acquired"
\* an error of the store's connection, not of the engine or the handler
EnvironmentFailure(c) == outcome[c].kind = "StoreUnavailable"
\* the audit action that follows `acquired` for the completion o
SecondAction(o) ==
    IF o.kind = "ok" THEN "stored"
    ELSE IF o.kind = "HandlerTimeout" THEN "timeout" ELSE "error"

\* C1: within the retention window, a call made after a call with the same key
\* and fingerprint has returned a result does not invoke its handler and
\* returns that memoized result.
C1_MemoizedAtMostOnce ==
    ~retentionElapsed =>
        \A d \in Calls :
            priorResults[d] # {} =>
                /\ handlerCalls[d] = 0
                /\ (pc[d] = "done" /\ ~EnvironmentFailure(d)) =>
                      (outcome[d].kind = "ok" /\ outcome[d].value \in priorResults[d])

\* C2: among concurrent calls on the same key and fingerprint whose handlers
\* succeed, the handler runs once, and every caller that did not run it fails
\* with OperationInProgress or returns the result of the one that did.
C2_ExactlyOnceConcurrent ==
    (/\ ~retentionElapsed
     /\ \A c \in Calls : outcome[c].kind \notin
            {"HandlerError", "HandlerTimeout", "StoreUnavailable", "CommitRefused"})
    => \A c, d \in Calls :
          (c # d /\ key[c] # NoKey /\ key[c] = key[d] /\ fp[c] = fp[d]) =>
              /\ (c < d /\ priorResults[d] = {}) => handlerCalls[c] + handlerCalls[d] <= 1
              /\ (handlerCalls[c] = 1 /\ handlerCalls[d] = 0 /\ pc[d] = "done") =>
                    \/ outcome[d] = Thrown("OperationInProgress")
                    \/ outcome[d] = Returned(ResultOf(c))

\* C3: per key at most one call is between its `acquired` and its `stored`,
\* and a call made after a result was stored for its key and fingerprint is
\* answered `exists` (within the retention window).
C3_OneAcquirerPerKey ==
    /\ \A c, d \in Calls :
          (c # d /\ key[c] # NoKey /\ key[c] = key[d]) =>
              ~(pc[c] \in {"handler", "commit"} /\ pc[d] \in {"handler", "commit"})
    /\ ~retentionElapsed =>
          \A d \in Calls :
              priorResults[d] # {} => checkResult[d].status \in {"none", "exists"}

\* C4: a probe that the store answers while the key holds a committed record
\* with another fingerprint makes execute fail with FingerprintMismatch,
\* without invoking the handler and without changing the store.
C4_ReplayRejected ==
    [][\A c \in Calls :
          (/\ pc[c] = "probe"
           /\ checkResult'[c] # NoReply
           /\ store[key[c]].status = "committed"
           /\ store[key[c]].fingerprint # fp[c])
          => /\ outcome'[c] = Thrown("FingerprintMismatch")
             /\ pc'[c] = "done"
             /\ handlerCalls'[c] = 0
             /\ store' = store]_vars

C4_Witness ==
    \E c \in Calls :
        /\ outcome[c] = Thrown("FingerprintMismatch")
        /\ handlerCalls[c] = 0
        /\ store[key[c]].status = "committed"
        /\ store[key[c]].fingerprint # fp[c]

\* C5: a probe that the store answers while the key holds a processing record
\* makes execute fail with OperationInProgress without invoking its handler
\* and without touching the store or any other call; and a call whose commit
\* succeeded completes with its own handler's result.
C5_LockContention ==
    [][/\ \A d \in Calls :
             (/\ pc[d] = "probe"
              /\ checkResult'[d] # NoReply
              /\ store[key[d]].status = "processing")
             => /\ outcome'[d] = Thrown("OperationInProgress")
                /\ pc'[d] = "done"
                /\ handlerCalls'[d] = 0
                /\ store' = store
                /\ \A c \in Calls \ {d} :
                      /\ pc'[c] = pc[c]
                      /\ outcome'[c] = outcome[c]
                      /\ handlerResult'[c] = handlerResult[c]
       /\ \A c \in Calls :
             (/\ pc[c] = "commit"
              /\ pc'[c] = "release"
              /\ store[key[c]].status = "processing"
              /\ store'[key[c]].status = "committed")
             => outcome'[c] = Returned(ResultOf(c))
       /\ \A c \in Calls :
             (pc[c] = "release" /\ outcome[c].kind = "ok" /\ pc'[c] = "done")
             => outcome'[c] = Returned(ResultOf(c))]_vars

C5_Witness ==
    \E c, d \in Calls :
        /\ c # d
        /\ key[c] = key[d]
        /\ outcome[d] = Thrown("OperationInProgress")
        /\ handlerCalls[d] = 0
        /\ pc[c] = "done"
        /\ outcome[c] = Returned(ResultOf(c))
        /\ Acquired(c)

\* C6 (as stated): a completed call that received `acquired` has delivered
\* exactly `acquired`, one of `stored` | `timeout` | `error`, `lock_released`.
C6_AcquiredSequenceAlways ==
    \A c \in Calls :
        (pc[c] = "done" /\ Acquired(c)) =>
            Actions(c) = <<"acquired", SecondAction(outcome[c]), "lock_released">>

\* C6 (amended): a call that received `acquired` delivers `acquired`, then the
\* one of `stored` | `timeout` | `error` that matches its completion, then
\* `lock_released`, in this order and nothing else, except that
\* `lock_released` is not delivered when store.releaseLock rejected.
C6_AcquiredSequence ==
    \A c \in Calls :
        Acquired(c) =>
            CASE pc[c] \in {"handler", "commit"} -> Actions(c) = <<"acquired">>
              [] pc[c] = "release" ->
                    Actions(c) = <<"acquired", SecondAction(outcome[c])>>
              [] pc[c] = "done" ->
                    Actions(c) =
                        IF releaseOutcome[c] = "rejected"
                        THEN <<"acquired", SecondAction(outcome[c])>>
                        ELSE <<"acquired", SecondAction(outcome[c]), "lock_released">>
              [] OTHER -> FALSE

C6_Witness ==
    \E c \in Calls :
        /\ pc[c] = "done"
        /\ outcome[c] = Returned(ResultOf(c))
        /\ Actions(c) = <<"acquired", "stored", "lock_released">>

\* C7: a call answered `exists` or `locked` delivers exactly one audit event:
\* `hit` when the fingerprints are equal, `fingerprint_mismatch` when they
\* differ, `locked` when the key is locked.
C7_CachePathOneEvent ==
    \A c \in Calls :
        checkResult[c].status \in {"exists", "locked"} =>
            /\ pc[c] = "done"
            /\ Actions(c) =
                  << IF checkResult[c].status = "locked" THEN "locked"
                     ELSE IF checkResult[c].fingerprint = fp[c] THEN "hit"
                     ELSE "fingerprint_mismatch" >>

C7_Witness ==
    \E c \in Calls :
        /\ checkResult[c].status = "exists"
        /\ outcome[c].kind = "ok"
        /\ Actions(c) = <<"hit">>

\* C8 (as stated): every completed execute call has delivered at least one
\* audit event.
C8_EveryCallAudited ==
    \A c \in Calls : pc[c] = "done" => Len(sinkLog[c]) >= 1

\* C8 (amended): every execute call whose store probe was answered (it passed
\* validation and atomicCheckAndLock did not reject) has delivered at least
\* one audit event.
C8_AnsweredCallsAudited ==
    \A c \in Calls : checkResult[c] # NoReply => Len(sinkLog[c]) >= 1

C8_Witness ==
    \E c \in Calls :
        /\ pc[c] = "done"
        /\ checkResult[c].status = "locked"
        /\ Len(sinkLog[c]) >= 1

\* C9 (as stated): a completed call that received `acquired` has called
\* store.releaseLock when the store implements it, and `lock_released` is the
\* last event it delivered.
C9_ReleaseThenAuditAlways ==
    \A c \in Calls :
        (pc[c] = "done" /\ Acquired(c)) =>
            /\ HasReleaseLock(storeKind) => releaseOutcome[c] \in {"settled", "rejected"}
            /\ Actions(c)[Len(sinkLog[c])] = "lock_released"

\* C9 (amended): on every exit path after `acquired` the engine calls
\* store.releaseLock when the store implements it, and then delivers
\* `lock_released` unless that call rejected.
C9_ReleaseThenAudit ==
    \A c \in Calls :
        (pc[c] = "done" /\ Acquired(c)) =>
            /\ HasReleaseLock(storeKind) => releaseOutcome[c] \in {"settled", "rejected"}
            /\ ~HasReleaseLock(storeKind) => releaseOutcome[c] = "absent"
            /\ (Actions(c)[Len(sinkLog[c])] = "lock_released")
                  <=> (releaseOutcome[c] # "rejected")

C9_Witness ==
    \E c \in Calls :
        /\ pc[c] = "done"
        /\ outcome[c] = Thrown("CommitRefused")
        /\ releaseOutcome[c] = "settled"
        /\ Actions(c) = <<"acquired", "error", "lock_released">>

\* C10: the finally block completes execute with the completion that was
\* pending when it was entered (the handler's result, or the original error),
\* also when store.releaseLock rejects.
C10_ReleaseFailureSwallowed ==
    [][\A c \in Calls :
          (pc[c] = "release" /\ pc'[c] # "release")
          => /\ pc'[c] = "done"
             /\ outcome[c] # NoOutcome
             /\ outcome'[c] = outcome[c]
             /\ outcome[c].kind = "ok" => outcome[c].value = handlerResult[c]]_vars

C10_Witness ==
    \E c, d \in Calls :
        /\ releaseOutcome[c] = "rejected"
        /\ outcome[c] = Returned(ResultOf(c))
        /\ releaseOutcome[d] = "rejected"
        /\ outcome[d] = Thrown("HandlerTimeout")

\* the call timed out: the timer fired while its handler was pending
TimedOut(c) == outcome[c] = Thrown("HandlerTimeout")
\* what a timed-out call leaves behind, whatever its handler does afterwards
TimeoutLeavesNoResult(c) ==
    /\ commitArg[c] = NotCalled
    /\ \A k \in FullKeys : ~(store[k].status = "committed" /\ store[k].owner = c)
\* call d probes key k after every other call on k has timed out and completed
AfterTimeouts(d) ==
    /\ pc[d] = "probe"
    /\ \E c \in Calls \ {d} : key[c] = key[d] /\ fp[c] = fp[d]
    /\ \A c \in Calls \ {d} : key[c] = key[d] => (pc[c] = "done" /\ TimedOut(c))

\* C11 (as stated): a call whose timer fired fails with HandlerTimeout after
\* exactly `acquired`, `timeout`, `lock_released`, never calls commitResult and
\* leaves no committed record even if its handler resolves later, and a
\* subsequent call with the same key and fingerprint is answered `acquired`
\* and invokes its handler.
C11_TimeoutThenFreshAlways ==
    [][/\ \A c \in Calls :
             (TimedOut(c) /\ pc[c] = "done") =>
                 /\ Actions(c) = <<"acquired", "timeout", "lock_released">>
                 /\ TimeoutLeavesNoResult(c)
       /\ \A d \in Calls :
             (AfterTimeouts(d) /\ pc'[d] # "probe" /\ checkResult'[d] # NoReply) =>
                 /\ checkResult'[d].status = "acquired"
                 /\ handlerCalls'[d] = 1]_vars

\* C11 (amended): a call whose timer fired fails with HandlerTimeout after
\* `acquired`, `timeout` and then `lock_released` (not delivered when
\* store.releaseLock rejected), never calls commitResult and leaves no
\* committed record even if its handler resolves later; a subsequent call
\* with the same key and fingerprint is never answered `exists`: it is
\* answered `acquired` and invokes its handler once the lock is gone, and
\* `locked` while the lock of a timed-out call is still in the store (the
\* store has no releaseLock, or the release failed, and the TTL has not
\* elapsed).
C11_TimeoutThenFresh ==
    [][/\ \A c \in Calls :
             TimedOut(c) =>
                 /\ pc[c] \in {"release", "done"}
                 /\ Actions(c) =
                       IF pc[c] = "done" /\ releaseOutcome[c] # "rejected"
                       THEN <<"acquired", "timeout", "lock_released">>
                       ELSE <<"acquired", "timeout">>
                 /\ TimeoutLeavesNoResult(c)
       /\ \A d \in Calls :
             (AfterTimeouts(d) /\ pc'[d] # "probe" /\ checkResult'[d] # NoReply) =>
                 /\ checkResult'[d].status \in {"acquired", "locked"}
                 /\ checkResult'[d].status = "acquired" =>
                       (handlerCalls'[d] = 1 /\ pc'[d] = "handler")
                 /\ checkResult'[d].status = "locked" =>
                       \E c \in Calls \ {d} :
                           /\ store[key[d]].status = "processing"
                           /\ store[key[d]].owner = c
                           /\ \/ releaseOutcome[c] \in {"absent", "rejected"}
                              \/ storeKind = "redis"]_vars

C11_Witness ==
    \E c, d \in Calls :
        /\ c < d
        /\ key[c] = key[d] /\ fp[c] = fp[d]
        /\ pc[c] = "done" /\ TimedOut(c)
        /\ handlerResult[c] = ResultOf(c)
        /\ Actions(c) = <<"acquired", "timeout", "lock_released">>
        /\ store[key[d]].status = "processing"
        /\ store[key[d]].owner = d
        /\ handlerCalls[d] = 1

SinkThrows(c) == key[c] # NoKey /\ ActiveSink(c).behaviour = "throws"
\* The course of a call as the store's answers, the handler and the timer
\* determine it - the sink does not occur in it: the store calls made, the
\* handler invocation, and the result or error of execute().
Course(c) ==
    CASE checkResult[c].status = "none" ->
            /\ handlerCalls[c] = 0 /\ commitArg[c] = NotCalled
            /\ releaseOutcome[c] = "none"
            /\ \/ pc[c] = "probe" /\ outcome[c] = NoOutcome
               \/ pc[c] = "done" /\ outcome[c] = Thrown("StoreUnavailable")
      [] checkResult[c].status = "exists" ->
            /\ handlerCalls[c] = 0 /\ commitArg[c] = NotCalled
            /\ releaseOutcome[c] = "none"
            /\ pc[c] = "done"
            /\ outcome[c] = IF checkResult[c].fingerprint = fp[c]
                            THEN Returned(checkResult[c].result)
                            ELSE Thrown("FingerprintMismatch")
      [] checkResult[c].status = "locked" ->
            /\ handlerCalls[c] = 0 /\ commitArg[c] = NotCalled
            /\ releaseOutcome[c] = "none"
            /\ pc[c] = "done"
            /\ outcome[c] = Thrown("OperationInProgress")
      [] checkResult[c].status = "acquired" ->
            /\ handlerCalls[c] = 1
            /\ CASE pc[c] = "handler" ->
                      outcome[c] = NoOutcome /\ commitArg[c] = NotCalled
                 [] pc[c] = "commit" ->
                      /\ outcome[c] = NoOutcome /\ commitArg[c] = NotCalled
                      /\ handlerResult[c] = ResultOf(c)
                 [] pc[c] \in {"release", "done"} ->
                      \/ /\ outcome[c] = Returned(handlerResult[c])
                         /\ handlerResult[c] = ResultOf(c)
                         /\ commitArg[c] # NotCalled
                      \/ /\ outcome[c] \in {Thrown("CommitRefused"),
                                             Thrown("StoreUnavailable")}
                         /\ commitArg[c] # NotCalled
                      \/ /\ outcome[c] \in {Thrown("HandlerError"),
                                             Thrown("HandlerTimeout")}
                         /\ commitArg[c] = NotCalled
                 [] OTHER -> FALSE
            /\ releaseOutcome[c] =
                  IF pc[c] # "done" THEN "none"
                  ELSE IF ~HasReleaseLock(storeKind) THEN "absent"
                  ELSE IF releaseOutcome[c] = "rejected" THEN "rejected"
                  ELSE "settled"

\* C13: a call whose audit sink throws on every event takes the course that
\* the store's answers, the handler and the timer determine, the same as a
\* call whose sink resolves: same store calls, same handler invocation, same
\* result or error; the sink was still handed every event.
C13_SinkFailureInert ==
    \A c \in Calls :
        key[c] # NoKey =>
            /\ Course(c)
            /\ SinkThrows(c) => Len(sinkLog[c]) >= 1 \/ checkResult[c] = NoReply

C13_Witness ==
    \E c, d \in Calls :
        /\ SinkThrows(c) /\ pc[c] = "done"
        /\ outcome[c] = Returned(ResultOf(c))
        /\ Actions(c) = <<"acquired", "stored", "lock_released">>
        /\ SinkThrows(d) /\ pc[d] = "done"
        /\ d # c
        /\ checkResult[d].status = "exists"
        /\ outcome[d] = Returned(ResultOf(c))

\* the events the active sink of call c was handed, in order
SinkEvents(c) == [i \in 1..Len(sinkLog[c]) |-> sinkLog[c][i].event]

\* C14: when the store exposes recordAudit, it has been invoked with every
\* event that was handed to the active sink, the same redacted event in the
\* same order, whatever the sink did with it.
C14_RecordAuditEveryEmission ==
    \A c \in Calls : HasRecordAudit(storeKind) => auditLog[c] = SinkEvents(c)

\* the name k contains, case-insensitively, one of password, token, secret,
\* card, cvv, pin, ssn, email, phone, or full and name with at most one
\* character between them
NamesSensitiveData(k) ==
    \/ \E w \in Words : \E i \in 1..Len(k) :
          /\ i + Len(w) - 1 <= Len(k)
          /\ ToLower(SubSeq(k, i, i + Len(w) - 1)) = w
    \/ \E i \in 1..Len(k) : \E gap \in {0, 1} :
          /\ i + 7 + gap <= Len(k)
          /\ ToLower(SubSeq(k, i, i + 3)) = <<"f", "u", "l", "l">>
          /\ ToLower(SubSeq(k, i + 4 + gap, i + 7 + gap)) = <<"n", "a", "m", "e">>
\* the keys of the model that name sensitive data
SensitiveNames == { k \in MetadataKeys : NamesSensitiveData(k) }
\* the metadata the engine builds for an event of call c, before redaction
BuiltMetadata(c, ev) ==
    IF ev.action \in {"error", "timeout"} THEN WithError(opts[c].metadata)
    ELSE opts[c].metadata
\* every event a sink or store.recordAudit received from call c
Received(c) ==
    { sinkLog[c][i].event : i \in 1..Len(sinkLog[c]) }
        \cup { auditLog[c][i] : i \in 1..Len(auditLog[c]) }

\* C15: every event handed to a sink or to store.recordAudit, the `error` and
\* `timeout` events with their appended error and errorCode keys included,
\* carries exactly the metadata keys of the call that name no sensitive data:
\* no key that contains one of the words is left, and every other key is kept.
C15_MetadataRedacted ==
    \A c \in Calls : \A ev \in Received(c) :
        /\ ev.metadata.given = BuiltMetadata(c, ev).given
        /\ ev.metadata.keys =
              { k \in BuiltMetadata(c, ev).keys : k \notin SensitiveNames }

C15_Witness ==
    \E c \in Calls : \E ev \in Received(c) :
        /\ ev.action = "timeout"
        /\ UpperPin \in opts[c].metadata.keys
        /\ FullUnderscoreName \in opts[c].metadata.keys
        /\ ev.metadata.keys = {RequestId, FullTwoName} \cup ErrorKeys
        /\ auditLog[c] # <<>>

\* the sinks that received the events of call c
SinksUsed(c) == { sinkLog[c][i].sink : i \in 1..Len(sinkLog[c]) }

\* C16: every event of a call made with options.onAudit went to that
\* override and none to the engine-level sink; every event of a call made
\* without it went to the engine-level sink, also after an earlier call used
\* an override.
C16_OverridePerCall ==
    \A c \in Calls :
        SinksUsed(c) \subseteq
            { IF opts[c].onAudit # NoOverride THEN "override" ELSE "engine" }

C16_Witness ==
    \E c, d \in Calls :
        /\ c < d
        /\ opts[c].onAudit # NoOverride
        /\ pc[c] = "done" /\ Len(sinkLog[c]) = 3
        /\ SinksUsed(c) = {"override"}
        /\ opts[d].onAudit = NoOverride
        /\ checkResult[d].status = "exists"
        /\ SinksUsed(d) = {"engine"}

\* a >= b on numbers
AtLeast(a, b) == ~a.nan /\ ~b.nan /\ a.v >= b.v
\* the call entered execute() in this step
Entered(c) == pc[c] = "idle" /\ pc'[c] # "idle"
\* the step left the store, the handlers and the other calls as they were
NothingTouched(c) ==
    /\ store' = store
    /\ handlerCalls' = handlerCalls
    /\ checkResult' = checkResult
    /\ commitArg' = commitArg
    /\ releaseOutcome' = releaseOutcome
    /\ sinkLog' = sinkLog

\* C17: every commitResult call carries a retentionMs of at least 24 hours,
\* the call's retentionOverride when one was given and the engine's retention
\* otherwise; and a call whose key and handlerTimeout are accepted but whose
\* retentionOverride is below 24 hours fails with InvalidRetention without a
\* store call and without invoking the handler.
C17_RetentionBound ==
    [][\A c \in Calls :
          /\ commitArg'[c] # NotCalled =>
                /\ AtLeast(commitArg'[c][1], Num(MinRetentionMs))
                /\ commitArg'[c][1] =
                      IF opts[c].retentionOverride # <<>>
                      THEN opts[c].retentionOverride[1]
                      ELSE engine.retention
          /\ (/\ Entered(c)
              /\ opts'[c].retentionOverride # <<>>
              /\ Lt(opts'[c].retentionOverride[1], Num(MinRetentionMs))
              /\ outcome'[c] \notin {Thrown("InvalidKey"),
                                     Thrown("InvalidHandlerTimeout")})
             => /\ outcome'[c] = Thrown("InvalidRetention")
                /\ pc'[c] = "done"
                /\ NothingTouched(c)]_vars

\* a key argument that is not a string, is empty, or is whitespace only
UnusableKey(k) ==
    \/ k.type # "string"
    \/ \A i \in 1..Len(k.chars) : k.chars[i] = " "

\* C19: execute with a key that is not a string, is empty or is whitespace
\* only fails with InvalidKey whatever the other options are, in the step in
\* which it is entered: no store operation is called, the handler is not
\* invoked and the store is unchanged; every other key passes the key check.
C19_KeyValidation ==
    [][\A c \in Calls :
          Entered(c) =>
              IF UnusableKey(opts'[c].key)
              THEN /\ outcome'[c] = Thrown("InvalidKey")
                   /\ pc'[c] = "done"
                   /\ key'[c] = NoKey
                   /\ NothingTouched(c)
              ELSE outcome'[c] # Thrown("InvalidKey")]_vars

C19_Witness ==
    \E c, d \in Calls :
        /\ pc[c] = "done" /\ opts[c].key = NotAString
        /\ outcome[c] = Thrown("InvalidKey")
        /\ pc[d] = "done" /\ opts[d].key = StringKey(<<" ">>)
        /\ outcome[d] = Thrown("InvalidKey")
        /\ \A k \in FullKeys : store[k] = Absent
        /\ handlerCalls[c] = 0 /\ handlerCalls[d] = 0

\* the caller key without its leading and trailing blanks, behind the prefix
Namespaced(c) == KeyPrefix \o Trim(opts[c].key.chars)

\* C20: a call that passed validation uses one full key, the prefix followed
\* by the trimmed caller key: it is the key of every event handed to a sink
\* or to recordAudit, and the only key of the store that a step of the call
\* (probe, commit, release) reads or writes.
C20_KeyNamespacing ==
    [][\A c \in Calls :
          key'[c] # NoKey =>
              /\ key'[c] = Namespaced(c)'
              /\ \A ev \in Received(c)' : ev.key = Namespaced(c)'
              /\ pc'[c] # pc[c] =>
                    \A k \in FullKeys \ {Namespaced(c)'} : store'[k] = store[k]]_vars

C20_Witness ==
    \E c \in Calls :
        /\ opts[c].key = StringKey(<<" ", "a", " ">>)
        /\ pc[c] = "done"
        /\ outcome[c] = Returned(ResultOf(c))
        /\ key[c] = <<"p", "a">>
        /\ Len(sinkLog[c]) = 3
        /\ \A ev \in Received(c) : ev.key = <<"p", "a">>
        /\ store[<<"p", "a">>].status = "committed"
        /\ store[<<"p", "b">>] = Absent

\* x is a number of the interval [lo, hi]
Within(x, lo, hi) == AtLeast(x, Num(lo)) /\ AtLeast(Num(hi), x)
\* the constructor was called in this step
Constructing == engine.state = "none" /\ engine'.state # "none"

\* C18: the constructor throws when retention is below 24 hours, when lockTtl
\* is not in [50, 300000] and when onAudit is not a function, and only then;
\* so every probe of an engine that exists is passed a lockTtl in
\* [50, 300000], by an engine that has a sink.
C18_ConstructionValidation ==
    [][/\ Constructing =>
             (engine'.state # "constructed"
                <=> \/ Lt(engine'.retention, Num(MinRetentionMs))
                    \/ ~Within(engine'.lockTtl, MinLockOrTimeoutMs, MaxLockOrTimeoutMs)
                    \/ engine'.onAudit \notin {"resolves", "throws"})
       /\ \A c \in Calls :
             opts'[c].lockTtl # <<>> =>
                 /\ engine'.state = "constructed"
                 /\ Within(opts'[c].lockTtl[1], MinLockOrTimeoutMs, MaxLockOrTimeoutMs)
                 /\ engine'.onAudit \in {"resolves", "throws"}]_vars

\* store.atomicCheckAndLock rejected: the call passed validation, is over and
\* was never answered
ProbeRejected(c) == pc[c] = "done" /\ key[c] # NoKey /\ checkResult[c] = NoReply
\* store.commitResult was called and threw
CommitThrew(c) == commitArg[c] # NotCalled /\ outcome[c].kind # "ok"

\* C21: a call whose atomicCheckAndLock or commitResult failed completes with
\* a StoreError that wraps the store's error as its cause.
C21_StoreFailureWrapped ==
    \A c \in Calls :
        (pc[c] = "done" /\ (ProbeRejected(c) \/ CommitThrew(c))) =>
            /\ outcome[c].kind = "StoreError"
            /\ outcome[c].cause \in {"StoreUnavailable", "CommitRefused"}

\* the fingerprint of the committed record that call c was answered with
StoredFingerprint(c) == checkResult[c].fingerprint
\* call c delivered exactly one event, `fingerprint_mismatch`, with the
\* fingerprint it supplied and the stored one
OneMismatchEvent(c) ==
    /\ Len(sinkLog[c]) = 1
    /\ sinkLog[c][1].event.action = "fingerprint_mismatch"
    /\ sinkLog[c][1].event.fingerprint = fp[c]
    /\ sinkLog[c][1].event.storedFingerprint = StoredFingerprint(c)

\* C22: a call that fails with FingerprintMismatch was answered `exists` with
\* another fingerprint than its own; the error carries that stored
\* fingerprint, and the call delivered exactly one audit event,
\* `fingerprint_mismatch`, carrying the supplied and the stored fingerprint.
C22_MismatchCarriesFingerprints ==
    \A c \in Calls :
        outcome[c].kind = "FingerprintMismatch" =>
            /\ checkResult[c].status = "exists"
            /\ StoredFingerprint(c) \in Fingerprints \ {fp[c]}
            /\ outcome[c].storedFingerprint = StoredFingerprint(c)
            /\ OneMismatchEvent(c)

\* store.atomicCheckAndLock answers call c in this step
Answered(c) == pc[c] = "probe" /\ checkResult'[c] # NoReply
\* the step changes no key record but that of k
OnlyKeyChanged(k) == \A j \in FullKeys \ {k} : store'[j] = store[j]

\* C23: atomicCheckAndLock of MemoryStore and of RedisAdapter, in the one
\* step in which it answers: on an absent key it installs a processing record
\* that expires after the lockTtl it was passed and answers `acquired`; on a
\* processing record it answers `locked` and changes nothing; on a committed
\* record it answers `exists` with the record's fingerprint, result and
\* creation time and changes nothing.
C23_CheckAndLockContract ==
    [][\A c \in Calls :
          Answered(c) =>
              LET rec == store[key[c]]
                  reply == checkResult'[c]
              IN /\ rec.status = "absent" =>
                       /\ reply.status = "acquired"
                       /\ store'[key[c]].status = "processing"
                       /\ store'[key[c]].px = opts[c].lockTtl
                       /\ OnlyKeyChanged(key[c])
                 /\ rec.status = "processing" =>
                       /\ reply.status = "locked"
                       /\ store' = store
                 /\ rec.status = "committed" =>
                       /\ reply.status = "exists"
                       /\ reply.fingerprint = rec.fingerprint
                       /\ reply.result = rec.result
                       /\ reply.createdAt = rec.owner
                       /\ store' = store]_vars

C23_Witness ==
    \E c, d \in Calls :
        /\ storeKind = "redis"
        /\ c # d /\ key[c] # NoKey /\ key[c] = key[d]
        /\ store[key[c]].status = "committed" /\ store[key[c]].owner = c
        /\ store[key[c]].px = opts[c].retentionMs
        /\ checkResult[c].status = "acquired"
        /\ checkResult[d] =
              Reply("exists", fp[c], store[key[c]].result, c)

\* C24: atomicCheckAndLock on a record that does not decode does what it does
\* on an absent key: it answers `acquired` and replaces the record by a
\* processing record that expires after the lock TTL (so that the next probe
\* is answered `locked` and the holder's commitResult finds its lock).
C24_CorruptTreatedAsAbsent ==
    [][\A c \in Calls :
          (Answered(c) /\ store[key[c]].status = "corrupt") =>
              /\ checkResult'[c].status = "acquired"
              /\ store'[key[c]].status = "processing"
              /\ store'[key[c]].owner = c
              /\ store'[key[c]].px = opts[c].lockTtl
              /\ OnlyKeyChanged(key[c])]_vars

\* store.commitResult was called by call c in this step and the connection
\* to the store did not fail
CommitRan(c) ==
    pc[c] = "commit" /\ pc'[c] # "commit" /\ outcome'[c] # Thrown("StoreUnavailable")

\* C25: commitResult on a key that holds a processing record succeeds and
\* replaces it, in one step, by a committed record with exactly the
\* fingerprint and the result it was given, expiring after retentionMs; and
\* a probe answered from a committed record gets `exists` with the
\* fingerprint and the result that the committing call gave.
C25_CommitRoundTrip ==
    [][/\ \A c \in Calls :
             (CommitRan(c) /\ store[key[c]].status = "processing") =>
                 /\ outcome'[c] = Returned(handlerResult[c])
                 /\ store'[key[c]].status = "committed"
                 /\ store'[key[c]].fingerprint = fp[c]
                 /\ store'[key[c]].result = handlerResult[c]
                 /\ store'[key[c]].px = opts[c].retentionMs
                 /\ OnlyKeyChanged(key[c])
       /\ \A d \in Calls :
             (Answered(d) /\ store[key[d]].status = "committed") =>
                 LET c == store[key[d]].owner
                 IN /\ checkResult'[d].status = "exists"
                    /\ checkResult'[d].fingerprint = fp[c]
                    /\ checkResult'[d].result = handlerResult[c]]_vars

\* C26: commitResult on a key that holds no processing record (the key is
\* absent because the lock expired or was released, or it holds a committed
\* record, a second commit included) throws and leaves the store as it is.
C26_CommitWithoutLockFails ==
    [][\A c \in Calls :
          (/\ pc[c] = "commit"
           /\ pc'[c] # "commit"
           /\ store[key[c]].status # "processing")
          => /\ outcome'[c] \in {Thrown("CommitRefused"), Thrown("StoreUnavailable")}
             /\ commitArg'[c] # NotCalled
             /\ store' = store]_vars

C26_Witness ==
    \E c, d \in Calls :
        /\ c # d /\ key[c] # NoKey /\ key[c] = key[d]
        /\ outcome[d] = Returned(handlerResult[d])
        /\ outcome[c] = Thrown("CommitRefused")
        /\ store[key[c]].status = "committed"
        /\ store[key[c]].owner = d
        /\ store[key[c]].fingerprint = fp[d]
        /\ fp[c] # fp[d]

\* the releaseLock call of call c's finally block ends in this step
ReleaseEnds(c) == pc[c] = "release" /\ pc'[c] = "done"

\* C27: releaseLock of MemoryStore and of RedisAdapter never throws and
\* removes nothing but a processing record: a key that holds a committed
\* record, as after the engine's successful commit, holds it afterwards.
C27_ReleaseOnlyProcessing ==
    [][\A c \in Calls :
          ReleaseEnds(c) =>
              /\ releaseOutcome'[c] = "settled"
              /\ outcome'[c] = outcome[c]
              /\ OnlyKeyChanged(key[c])
              /\ store[key[c]].status = "processing" =>
                    store'[key[c]] \in {Absent, store[key[c]]}
              /\ store[key[c]].status = "committed" =>
                    store'[key[c]] = store[key[c]]]_vars

\* call c committed its result: its commitResult succeeded
CommittedBy(c) == commitArg[c] # NotCalled /\ outcome[c].kind = "ok"

\* C28: a committed record is changed by no step; it only disappears, as a
\* whole, when its retention elapses; so until a retention has elapsed, all
\* the calls that committed on one key committed the same fingerprint.
C28_CommittedImmutable ==
    /\ [][\A k \in FullKeys :
             store[k].status = "committed" =>
                 \/ store'[k] = store[k]
                 \/ RetentionExpire(k)]_vars
    /\ [](~retentionElapsed =>
             \A c, d \in Calls :
                 (key[c] # NoKey /\ key[c] = key[d] /\ CommittedBy(c) /\ CommittedBy(d))
                 => fp[c] = fp[d])

\* the processing record that call c installed is in the store
HoldsLock(c) ==
    /\ key[c] # NoKey
    /\ store[key[c]].status = "processing"
    /\ store[key[c]].owner = c

\* C29: the processing record of a holder that crashed, and so neither
\* commits nor releases, is eventually gone; no key stays processing for
\* ever; the expiry of a lock leaves the key absent, and a probe of an absent
\* key is answered `acquired`.
C29_ZombieLockRecovery ==
    /\ \A c \in Calls : (pc[c] = "crashed" /\ HoldsLock(c)) ~> ~HoldsLock(c)
    /\ \A k \in FullKeys : []<>(store[k].status # "processing")
    /\ [][/\ \A k \in FullKeys : LockExpire(k) => store'[k] = Absent
          /\ \A d \in Calls :
                (Answered(d) /\ store[key[d]].status = "absent") =>
                    /\ checkResult'[d].status = "acquired"
                    /\ HoldsLock(d)']_vars

C29_Witness ==
    \E c, d \in Calls :
        /\ pc[c] = "crashed"
        /\ checkResult[c].status = "acquired"
        /\ commitArg[c] = NotCalled
        /\ releaseOutcome[c] = "none"
        /\ c # d /\ key[d] = key[c]
        /\ checkResult[d].status = "acquired"
        /\ HoldsLock(d)

\* q is p up to the insertion order of the keys of its objects, at any depth
RECURSIVE SameUpToKeyOrder(_, _)
SameUpToKeyOrder(p, q) ==
    /\ p.t = q.t
    /\ p.token = q.token
    /\ Len(p.kids) = Len(q.kids)
    /\ IF p.t = "object"
       THEN \A i \in 1..Len(p.kids) : \E j \in 1..Len(q.kids) :
                /\ q.kids[j].k = p.kids[i].k
                /\ SameUpToKeyOrder(p.kids[i].v, q.kids[j].v)
       ELSE \A i \in 1..Len(p.kids) : SameUpToKeyOrder(p.kids[i].v, q.kids[i].v)

\* C30: two fingerprint() calls whose arguments are the same payload, or
\* differ only in the insertion order of object keys at any depth, return
\* the same digest.
C30_FingerprintDeterminism ==
    \A i, j \in 1..Len(fingerprinted) :
        SameUpToKeyOrder(fingerprinted[i].data, fingerprinted[j].data) =>
            fingerprinted[i].digest = fingerprinted[j].digest

\* the store as a call on key k sees it if it reads no other key
OnlyKey(k) == [j \in FullKeys |-> IF j = k THEN store[j] ELSE Absent]

\* no other call was made with the key of call c
AloneOnKey(c) == \A d \in Calls \ {c} : key[d] # key[c]

\* C31: calls on different full keys are independent.  A step of a call
\* changes no record but the one of its own key, the answer to its probe is
\* the answer it would get with every other key absent, and a call whose key
\* no other call uses is answered `acquired` when its probe is answered at
\* all, and invokes its handler once, whatever the other keys hold.
C31_KeysIndependent ==
    /\ [][\A c \in Calls :
            pc'[c] # pc[c] =>
                /\ \A k \in FullKeys \ {key'[c]} : store'[k] = store[k]
                /\ Answered(c) =>
                        checkResult'[c] =
                            AtomicCheckAndLock(storeKind, OnlyKey(key[c]), key[c], c,
                                               opts[c].lockTtl[1]).reply]_vars
    /\ [](\A c \in Calls :
            (checkResult[c] # NoReply /\ AloneOnKey(c)) =>
                /\ checkResult[c].status = "acquired"
                /\ handlerCalls[c] = 1)

\* two calls on two keys hold their locks at once, and one of them has gone
\* through its release while the other's lock is still in place
C31_Witness ==
    \E c, d \in Calls :
        /\ key[c] # NoKey /\ key[d] # NoKey /\ key[c] # key[d]
        /\ checkResult[c].status = "acquired" /\ checkResult[d].status = "acquired"
        /\ handlerCalls[c] = 1 /\ handlerCalls[d] = 1
        /\ pc[c] = "done" /\ releaseOutcome[c] = "settled"
        /\ pc[d] = "handler"
        /\ store[key[d]].status = "processing" /\ store[key[d]].owner = d

\* C32: a commitResult call of an execute call succeeds only when the
\* processing record in the store is the one this call installed; a call
\* whose lock expired and whose key another call re-acquired does not commit
\* over that call's lock.
C32_CommitOwnership ==
    [][\A c \in Calls :
          (CommitRan(c) /\ outcome'[c].kind = "ok") => HoldsLock(c)]_vars

\* call c is between its `acquired` and the end of its finally block
Running(c) == pc[c] \in {"handler", "commit", "release"}

\* C33: the releaseLock call in the exit path of an execute call removes no
\* processing record but the one this call installed: the lock that another,
\* still running call holds is in place after it.
C33_ReleaseOwnership ==
    [][\A c \in Calls :
          ReleaseEnds(c) =>
              \A d \in Calls \ {c} : (Running(d) /\ HoldsLock(d)) => HoldsLock(d)']_vars

\* the handler that call c invoked has not settled: the call awaits it, or
\* its timer has fired and the orphaned handler has not resolved since
HandlerPending(c) ==
    \/ pc[c] = "handler"
    \/ /\ outcome[c] = Thrown("HandlerTimeout")
       /\ handlerCalls[c] = 1
       /\ handlerResult[c] = NoResult

\* C34: at any moment at most one handler invocation is pending for a full
\* key, handlers orphaned by a timeout and handlers whose lock TTL has
\* elapsed included.
C34_OneHandlerPerKey ==
    \A c, d \in Calls :
        (c # d /\ key[c] # NoKey /\ key[c] = key[d]) =>
            ~(HandlerPending(c) /\ HandlerPending(d))

\* C35: a call that was not answered `acquired` (it was answered `exists` or
\* `locked`, its arguments were rejected, or its probe failed) never invokes
\* its handler and never calls commitResult or releaseLock, and none of its
\* steps changes a record of the store: the lock of the holder stays.
C35_NotAcquiredTouchesNothing ==
    /\ [](\A c \in Calls :
            ~Acquired(c) =>
                /\ handlerCalls[c] = 0
                /\ handlerResult[c] = NoResult
                /\ commitArg[c] = NotCalled
                /\ releaseOutcome[c] = "none"
                /\ pc[c] \in {"idle", "probe", "done"})
    /\ [][\A c \in Calls :
            (pc'[c] # pc[c] /\ ~Acquired(c)') => store' = store]_vars

\* a contender was answered `locked` and has left, and the holder of the key
\* still holds its lock
C35_Witness ==
    \E c, d \in Calls :
        /\ c # d /\ key[c] = key[d]
        /\ pc[c] = "handler" /\ HoldsLock(c)
        /\ pc[d] = "done" /\ checkResult[d].status = "locked"
        /\ outcome[d] = Thrown("OperationInProgress")

\* the positions of an execute() call, in the order of the code
Positions == <<"idle", "probe", "handler", "commit", "release", "done">>
Position(c) == CHOOSE i \in 1..Len(Positions) : Positions[i] = pc[c]

\* `stored` is handed to the sink of call c in this step
StoredEmitted(c) ==
    /\ Len(sinkLog'[c]) = Len(sinkLog[c]) + 1
    /\ sinkLog'[c][Len(sinkLog'[c])].event.action = "stored"

\* what the store holds after commitResult was given the value v
AsStored(v) == IF storeKind = "redis" THEN ThroughCjson(v) ELSE v

\* C36: the protocol of one execute call.  A call never goes back to an
\* earlier position, so that it probes at most once and commits at most
\* once; it invokes its handler at most once and only after `acquired`; it
\* calls commitResult only with the value its handler resolved with before
\* the timer fired; `stored` is emitted only in the step in which
\* commitResult succeeded; and the value returned on the acquired path is
\* the value that was passed to commitResult.
C36_PerCallProtocol ==
    /\ [][\A c \in Calls :
            /\ Position(c)' >= Position(c)
            /\ checkResult[c] # NoReply => checkResult'[c] = checkResult[c]
            /\ commitArg[c] # NotCalled => commitArg'[c] = commitArg[c]
            /\ handlerCalls'[c] # handlerCalls[c] =>
                    /\ pc[c] = "probe"
                    /\ checkResult'[c].status = "acquired"
            /\ commitArg'[c] # commitArg[c] =>
                    /\ pc[c] = "commit"
                    /\ handlerCalls[c] = 1
                    /\ handlerResult[c] \in Results(c)
                    /\ outcome[c] = NoOutcome
            /\ StoredEmitted(c) =>
                    /\ pc[c] = "commit"
                    /\ commitArg'[c] # NotCalled
                    /\ store[key[c]].status = "processing"
                    /\ store'[key[c]].status = "committed"
                    /\ store'[key[c]].result = AsStored(handlerResult[c])
                    /\ outcome'[c] = Returned(handlerResult[c])]_vars
    /\ [](\A c \in Calls :
            /\ handlerCalls[c] <= 1
            /\ (Acquired(c) /\ outcome[c].kind = "ok") =>
                    /\ commitArg[c] # NotCalled
                    /\ outcome[c].value = handlerResult[c]
                    /\ \E i \in 1..Len(sinkLog[c]) :
                            sinkLog[c][i].event.action = "stored")

\* a call went through the whole acquired path and returned its handler's
\* value, and another call's commit was refused
C36_Witness ==
    \E c, d \in Calls :
        /\ pc[c] = "done" /\ Actions(c) = <<"acquired", "stored", "lock_released">>
        /\ outcome[c] = Returned(ResultOf(c))
        /\ commitArg[c] # NotCalled
        /\ c # d /\ pc[d] = "done" /\ outcome[d] = Thrown("CommitRefused")
        /\ commitArg[d] # NotCalled
        /\ Actions(d) = <<"acquired", "error", "lock_released">>

\* C37: when every store operation and every audit call settles, each
\* execute call that was made returns or fails, whether or not its handler
\* ever settles, and every call that was answered `acquired` reaches the
\* release step of its finally block.
C37_Termination ==
    /\ \A c \in Calls : (pc[c] # "idle") ~> (pc[c] = "done")
    /\ \A c \in Calls : Acquired(c) ~> (releaseOutcome[c] # "none")

\* a call has failed with HandlerTimeout and gone through its release while
\* its handler has not settled
C37_Witness ==
    \E c \in Calls :
        /\ pc[c] = "done"
        /\ outcome[c] = Thrown("HandlerTimeout")
        /\ handlerCalls[c] = 1
        /\ handlerResult[c] = NoResult
        /\ releaseOutcome[c] # "none"

====
